---------------------------- MODULE Spec2Model ----------------------------
(***************************************************************************)
(* Model of the render pass of the Markdown viewer (src/src/main.rs):      *)
(* render_markdown consumes the parser's events one at a time and drives   *)
(* RenderState (inline style stack, block stack, current LayoutJob, table, *)
(* code and link accumulators); every egui call on state.ui is recorded as *)
(* one command appended to the sequence ui.                                *)
(*                                                                         *)
(* Conventions.  A Rust String is a sequence of tokens (TLA+ strings used  *)
(* as indivisible pieces of text), so push_str and format! are \o.  An     *)
(* Option<T> is a sequence of length at most one: <<>> is None, <<x>> is   *)
(* Some(x).  f32 sizes and spacings are kept in tenths (4.0 is 40, the     *)
(* footnote size 14.0 * 0.8 is 112).  A LayoutJob is the sequence of its   *)
(* sections, each a record [text, fmt]; LayoutJob::is_empty is "no         *)
(* sections".                                                              *)
(***************************************************************************)
EXTENDS Integers, Sequences, FiniteSets, TLC

(***************************************************************************)
(* Bounds of the event source.                                             *)
(***************************************************************************)
\* events of a stream that need not be balanced
MaxAnyEvents == 3
\* events of a stream that is rendered twice
MaxTwiceEvents == 2
\* events of a stream of closes
MaxCloseEvents == 3
\* events of a stream of the events that flush and those that append
MaxFlushEvents == 2
\* block containers
MaxQuotes == 2
\* leaf events in and around a block quote
MaxQuoteLeaves == 2
\* task-list items
MaxTaskItems == 2
MaxTaskLeaves == 3
\* tables
MaxRows == 2
MaxCells == 9
MaxTableLeaves == 1
MaxTableEvents == 13
\* tables that follow one another, and the events of their stream
MaxGridTables == 2
MaxGridEvents == 6
\* cells of a header row and their leaf events
MaxHeadCells == 2
MaxCellLeaves == 2
\* code blocks
MaxCodeBlocks == 2
MaxCodeLeaves == 2
\* events of a stream of code blocks, text and breaks
MaxSessionEvents == 4
\* events, and among them leaf events, of a stream whose text is traced to
\* the commands
MaxKeptEvents == 5
MaxKeptLeaves == 2
\* the latest reading of the clock
MaxClock == 1
\* render passes that ask for images side by side, and the images each asks for
MaxPasses == 2
\* list scenario
MaxLists == 2
MaxItems == 3
MaxListLeaves == 2
\* paragraphs of styled text
MaxParagraphs == 2
MaxSpans == 2
MaxParaLeaves == 3
\* links
MaxLinks == 2
MaxLinkSpans == 1
MaxLinkLeaves == 2
MaxLinkEvents == 6
\* links and Text events of a paragraph whose output order is compared with
\* the stream
MaxOrderLinks == 2
MaxOrderLeaves == 3
\* images and leaf events of a stream with image descriptions
MaxAltImages == 2
MaxAltLeaves == 2
MaxAltEvents == 4
\* leaf events around and inside one link
MaxLinkedLeaves == 2
\* events of a stream of every construct that carries a style
MaxStyleEvents == 6
\* events of a stream of style spans among the constructs with a state of
\* their own: in the grammar, and in any order
MaxFrameEvents == 6
MaxFrameAnyEvents == 3
\* inline style depth
MaxHeadings == 1
MaxDepthSpans == 2
MaxDepthLinks == 1
MaxDepthLeaves == 1
MaxDepthRows == 1
MaxDepthCells == 2
MaxDepthEvents == 6

(***************************************************************************)
(* Program constants.                                                      *)
(***************************************************************************)
CODE_FONT_SIZE == 130
BODY_FONT_SIZE == 140

None == <<>>
Some(x) == <<x>>

\* egui::Stroke::NONE and Stroke::new(width, color)
StrokeNONE == [width |-> 0, color |-> "TRANSPARENT"]
Stroke(w, c) == [width |-> w, color |-> c]

\* egui::TextFormat::default()
DefaultFormat ==
    [family |-> "Proportional", size |-> 140, color |-> "GRAY",
     background |-> "TRANSPARENT", italics |-> FALSE,
     underline |-> StrokeNONE, strikethrough |-> StrokeNONE,
     valign |-> "BOTTOM"]

\* FontId::new(size, family) stored into a format
WithFont(fmt, size, family) == [fmt EXCEPT !.size = size, !.family = family]

\* the base body format of a pass
base_format ==
    [WithFont(DefaultFormat, BODY_FONT_SIZE, "Proportional")
        EXCEPT !.color = "text_color", !.background = "TRANSPARENT"]

heading_font_size(level) ==
    CASE level = 1 -> 300
      [] level = 2 -> 240
      [] level = 3 -> 200
      [] level = 4 -> 180
      [] level = 5 -> 160
      [] OTHER -> 140

heading_spacing(level, before) ==
    CASE level = 1 -> IF before THEN 160 ELSE 80
      [] level = 2 -> IF before THEN 120 ELSE 60
      [] level = 3 -> IF before THEN 100 ELSE 50
      [] OTHER -> IF before THEN 80 ELSE 40

(***************************************************************************)
(* Output commands: one per call on state.ui.                              *)
(***************************************************************************)
Space(amt) == [cmd |-> "add_space", amt |-> amt]
Label(job) == [cmd |-> "label", job |-> job]
PlainLabel(text) == [cmd |-> "text_label", text |-> text]
QuoteBar == [cmd |-> "quote_bar"]
Marker(levels, text) == [cmd |-> "marker", indent |-> levels * 200, text |-> text]
LinkCmd(text, url) == [cmd |-> "link", text |-> text, url |-> url]
CodeCmd(job) == [cmd |-> "code_block", job |-> job]
GridCmd(cols, rows) == [cmd |-> "grid", num_columns |-> cols, rows |-> rows]
ImageCmd(url, hover) == [cmd |-> "image", url |-> url, hover |-> hover]
SeparatorCmd == [cmd |-> "separator"]

\* LayoutJob::append(text, 0.0, format)
Section(text, fmt) == [text |-> text, fmt |-> fmt]

VARIABLES
    \* RenderState
    inline_style_stack, block_stack, current_job, list_item_number,
    in_table_header, table_rows, current_cell_job,
    highlighter, code_language, code_block_content,
    current_link_url, current_link_text,
    \* the commands issued on state.ui, in order
    ui,
    \* "run" while events are processed, "done" after the final flush,
    \* "panic" when a handler has panicked
    pc,
    \* the event source: strict streams obey the nesting grammar
    \* (wf: so far the stream obeys it; balanced: so far every End closes
    \* the tag opened last)
    strict, cap, used, events, open, wf, balanced,
    \* the last event processed
    last,
    \* IMAGE_CACHE: for each URL "absent", "loading" (the closure of
    \* or_insert_with runs) or "present"; the owner of its mutex; the number of
    \* times the closure has run for each URL
    image_cache, cache_lock, image_loads,
    \* the passes that run render_image side by side: where each is in the
    \* function, the URL it asks for, and what its lookup found
    img_pc, img_url, img_seen,
    \* a pass repeated over the same events: the number of the pass, the
    \* events of the first pass and the commands it issued
    pass, trace, first_ui,
    \* MarkdownViewerApp: the record of its fields
    app

rsVars == <<inline_style_stack, block_stack, current_job, list_item_number,
            in_table_header, table_rows, current_cell_job,
            highlighter, code_language, code_block_content,
            current_link_url, current_link_text>>
tableVars == <<in_table_header, table_rows, current_cell_job>>
codeVars == <<highlighter, code_language, code_block_content>>
linkVars == <<current_link_url, current_link_text>>
srcVars == <<strict, cap, used, events, open, wf, balanced>>
cacheVars == <<image_cache, cache_lock, image_loads>>
imgVars == <<img_pc, img_url, img_seen>>
passVars == <<pass, trace, first_ui>>
vars == <<rsVars, ui, pc, srcVars, last, cacheVars, imgVars, passVars, app>>

(***************************************************************************)
(* The event source.  open is the stack of tags opened and not yet closed, *)
(* each with the number k of children opened directly inside it, the       *)
(* argument of its Start event (a List's start number, a Heading's level,  *)
(* a Link's URL) and the events logged since.                              *)
(***************************************************************************)
Tags == {"Paragraph", "Heading", "BlockQuote", "CodeBlock", "List", "Item",
         "Table", "TableHead", "TableRow", "TableCell", "FootnoteDefinition",
         "Emphasis", "Strong", "Strikethrough", "Link", "Image"}
\* budget categories: the three style spans share one
Cat(tag) == IF tag \in {"Emphasis", "Strong", "Strikethrough"} THEN "Span" ELSE tag
Cats == Tags \cup {"Leaf", "Span", "Total", "Any", "Replay"}

BlockTags == {"Paragraph", "Heading", "BlockQuote", "CodeBlock", "List",
              "Table", "FootnoteDefinition"}
BlockContainers == {"Doc", "BlockQuote", "Item", "FootnoteDefinition"}
InlineContainers == {"Paragraph", "Heading", "Item", "TableCell", "Emphasis",
                     "Strong", "Strikethrough", "Link", "Image"}
InlineLeaves == {"Text", "Code", "InlineHtml", "FootnoteReference",
                 "SoftBreak", "HardBreak"}

Top(s) == s[Len(s)]
Pop(s) == SubSeq(s, 1, Len(s) - 1)
Ctx == IF open = <<>> THEN "Doc" ELSE Top(open).tag
IsOpen(tag) == \E i \in 1..Len(open) : open[i].tag = tag

\* the nesting grammar of the parser's streams
MayOpen(tag) ==
    CASE tag \in BlockTags -> Ctx \in BlockContainers
      [] tag = "Item" -> Ctx = "List"
      [] tag = "TableHead" -> Ctx = "Table" /\ Top(open).k = 0
      [] tag = "TableRow" -> Ctx = "Table"
      [] tag = "TableCell" -> Ctx \in {"TableHead", "TableRow"}
      [] tag = "Link" -> Ctx \in InlineContainers /\ ~IsOpen("Link")
      [] OTHER -> Ctx \in InlineContainers

MayLeaf(kind) ==
    CASE kind = "Text" -> Ctx \in InlineContainers \cup {"CodeBlock"}
      [] kind \in {"Rule", "Html"} -> Ctx \in BlockContainers
      [] kind = "TaskListMarker" ->
            Ctx \in {"Item", "Paragraph"} /\ IsOpen("Item")
      [] OTHER -> Ctx \in InlineContainers

\* lists, paragraphs and style spans are never empty
MayClose(tag) ==
    /\ Ctx = tag
    /\ tag \in {"List", "Paragraph", "Emphasis", "Strong", "Strikethrough"}
          => Top(open).k > 0

\* an event as the source logs it: its kind, tag and text, and the format on
\* top of the inline stack and the number of commands issued when it arrived
Logged(kind, tag, text) ==
    [kind |-> kind, tag |-> tag, text |-> text,
     fmt |-> IF inline_style_stack = <<>> THEN base_format
             ELSE Top(inline_style_stack),
     uiLen |-> Len(ui)]

OpenRec(tag, arg) == [tag |-> tag, k |-> 0, arg |-> arg, body |-> <<>>]
CountChild(s) ==
    IF s = <<>> THEN s ELSE [s EXCEPT ![Len(s)].k = @ + 1]
\* every open tag logs the events inside it
Log(s, e) == [i \in DOMAIN s |-> [s[i] EXCEPT !.body = Append(@, e)]]

SrcStart(tag, arg) ==
    /\ pc = "run"
    /\ IF strict THEN /\ MayOpen(tag)
                       /\ used[Cat(tag)] < cap[Cat(tag)]
                       /\ used["Total"] < cap["Total"]
                 ELSE events < cap["Any"]
    /\ open' = Append(Log(CountChild(open), Logged("Start", tag, <<>>)),
                      OpenRec(tag, arg))
    /\ used' = [used EXCEPT ![Cat(tag)] = @ + 1, !["Total"] = @ + 1]
    /\ events' = events + 1
    /\ wf' = (wf /\ MayOpen(tag))
    /\ UNCHANGED <<strict, cap, balanced>>

SrcEnd(tag) ==
    /\ pc = "run"
    /\ IF strict THEN MayClose(tag) ELSE events < cap["Any"]
    /\ open' = Log(IF Ctx = tag THEN Pop(open) ELSE open,
                   Logged("End", tag, <<>>))
    /\ events' = events + 1
    /\ wf' = (wf /\ MayClose(tag))
    /\ balanced' = (balanced /\ Ctx = tag)
    /\ UNCHANGED <<strict, cap, used>>

SrcLeaf(kind, text) ==
    /\ pc = "run"
    /\ IF strict THEN /\ MayLeaf(kind)
                       /\ used["Leaf"] < cap["Leaf"]
                       /\ used["Total"] < cap["Total"]
                 ELSE events < cap["Any"]
    /\ open' = Log(CountChild(open), Logged(kind, "", text))
    /\ used' = [used EXCEPT !["Leaf"] = @ + 1, !["Total"] = @ + 1]
    /\ events' = events + 1
    /\ wf' = (wf /\ MayLeaf(kind))
    /\ UNCHANGED <<strict, cap, balanced>>

Ev(kind) == [kind |-> kind]

\* one event of a pass: the first pass of a repeated run records the event,
\* the second pass takes the events the first pass took
Step ==
    /\ trace' = IF cap["Replay"] > 0 /\ pass = 1 THEN Append(trace, last')
                ELSE trace
    /\ pass = 2 => Len(trace) > events /\ last' = trace[events + 1]
    /\ UNCHANGED <<pass, first_ui, imgVars, app>>

\* an event whose handler does not touch the image cache
Quiet == Step /\ UNCHANGED cacheVars

(***************************************************************************)
(* MarkdownViewerApp.  A status message is the pair of its text and the    *)
(* reading of the clock it was set at; the results of fs::metadata and     *)
(* fs::read_to_string are inputs of the operations that read the file.     *)
(***************************************************************************)
DEFAULT_MARKDOWN == <<"DEFAULT_MARKDOWN">>
Paths == {"p1", "p2"}
Contents == {<<"c1">>, <<"c2">>}
ModTimes == {"m1", "m2"}
Offsets == {0, 10}
Times == 0..MaxClock
IoErrors == {"e"}

Ok(x) == [ok |-> TRUE, val |-> x]
Err(e) == [ok |-> FALSE, val |-> e]
\* fs::metadata(path) with metadata.modified().ok(), and fs::read_to_string
MetaResults == {Ok(m) : m \in {None} \cup {Some(t) : t \in ModTimes}}
                   \cup {Err(e) : e \in IoErrors}
ReadResults == {Ok(c) : c \in Contents} \cup {Err(e) : e \in IoErrors}

\* MarkdownViewerApp::default()
DefaultApp ==
    [markdown |-> <<>>, file_path |-> None, status_message |-> None,
     dark_mode |-> FALSE, last_modified |-> None, scroll_offset |-> None]

new_default ==
    [DefaultApp EXCEPT !.markdown = DEFAULT_MARKDOWN, !.dark_mode = TRUE]

\* MarkdownViewerApp::error(message)
error(message, now) ==
    [DefaultApp EXCEPT !.status_message = Some(<<message, now>>),
                       !.dark_mode = TRUE]

new_from_file(path, meta, read, now) ==
    IF meta.ok
    THEN IF read.ok
         THEN [markdown |-> read.val, file_path |-> Some(path),
               status_message |-> Some(<<<<"File loaded.">>, now>>),
               dark_mode |-> TRUE, last_modified |-> meta.val,
               scroll_offset |-> None]
         ELSE error(<<"Failed to read file: ", read.val>>, now)
    ELSE error(<<"Failed to access file metadata: ", meta.val>>, now)

\* an operation of the application leaves the render pass alone
AppStep ==
    UNCHANGED <<rsVars, ui, pc, srcVars, cacheVars, imgVars, passVars>>

\* the Open button: the file the dialog returns replaces the application
OpenFile ==
    \E path \in Paths, meta \in MetaResults, read \in ReadResults,
       now \in Times :
        /\ app' = new_from_file(path, meta, read, now)
        /\ last' = [kind |-> "OpenFile", path |-> path, meta |-> meta,
                    read |-> read]
        /\ AppStep

reload_file ==
    \E meta \in MetaResults, read \in ReadResults, t1 \in Times,
       t2 \in Times :
        /\ t1 <= t2
        /\ IF app.file_path # None
           THEN app' = [new_from_file(app.file_path[1], meta, read, t1)
                           EXCEPT !.scroll_offset = app.scroll_offset,
                                  !.status_message =
                                      Some(<<<<"File reloaded.">>, t2>>)]
           ELSE app' = [app EXCEPT !.status_message =
                           Some(<<<<"Cannot reload: No file is open.">>, t2>>)]
        /\ last' = [kind |-> "reload_file", meta |-> meta, read |-> read]
        /\ AppStep

\* the Dark Mode toggle of the menu bar
ToggleDarkMode ==
    /\ app' = [app EXCEPT !.dark_mode = ~@]
    /\ last' = Ev("ToggleDarkMode")
    /\ AppStep

\* the scroll area reports its offset at the end of a frame
StoreScrollOffset ==
    \E y \in Offsets :
        /\ app' = [app EXCEPT !.scroll_offset = Some(y)]
        /\ last' = [kind |-> "StoreScrollOffset", y |-> y]
        /\ AppStep

(***************************************************************************)
(* Helpers of the pass.                                                    *)
(***************************************************************************)
\* current_format: the top of the inline stack, or the base format
current_format ==
    IF inline_style_stack = <<>> THEN base_format ELSE Top(inline_style_stack)

\* flush_inline_content: the commands it issues (current_job is left empty)
flush_inline_content(add_paragraph_spacing) ==
    IF current_job # <<>>
    THEN <<Label(current_job)>> \o
         (IF add_paragraph_spacing THEN <<Space(40)>> ELSE <<>>)
    ELSE <<>>

is_paragraph_like ==
    \/ block_stack = <<>>
    \/ Top(block_stack).kind \in {"List", "BlockQuote"}

\* a block flush that issues the job without looking at it
flush_block_content_unguarded ==
    <<Label(current_job)>> \o (IF is_paragraph_like THEN <<Space(40)>> ELSE <<>>)

\* flush_block_content: the commands it issues (current_job is left empty)
flush_block_content ==
    IF current_job # <<>> THEN flush_inline_content(is_paragraph_like) ELSE <<>>

\* mutant: the guarded pop that pops nothing
PopIfAnyKeeps(s) == s

\* !stack.is_empty() guarded pop
PopIfAny(s) == IF s = <<>> THEN s ELSE Pop(s)

BlockList(num) == [kind |-> "List", num |-> num]
BlockQuoteInfo == [kind |-> "BlockQuote", num |-> None]
BlockTable == [kind |-> "Table", num |-> None]

top_is_table == block_stack # <<>> /\ Top(block_stack).kind = "Table"


\* get_parent_list_num: the nearest List below the top of the stack
get_parent_list_num(stack) ==
    LET idx == {i \in 1..(Len(stack) - 1) : stack[i].kind = "List"}
    IN  IF idx = {} THEN None
        ELSE stack[CHOOSE i \in idx : \A j \in idx : j <= i].num

\* a count of every context on the block stack, List or not
indent_level_of_any_block == Len(block_stack)

\* let indent_width = 20.0
indent_width == 200

\* the number of List contexts on the block stack
indent_level ==
    Cardinality({i \in 1..Len(block_stack) : block_stack[i].kind = "List"})

\* the marker literal of an unordered item: the source file holds the three
\* characters U+00E2 U+20AC U+00A2 and a space
UnorderedMarker == <<"U+00E2", "U+20AC", "U+00A2", " ">>

\* format!("{}. ", num) or the unordered literal
item_marker ==
    IF list_item_number # None
    THEN <<ToString(list_item_number[1]), ". ">>
    ELSE UnorderedMarker

(***************************************************************************)
(* Event::Start handlers.                                                  *)
(***************************************************************************)
\* of the levels H1..H6, the largest and the one of body size
HeadingLevels == {1, 6}
ListStarts == {None, Some(1), Some(3)}
Urls == {"u1", "u2"}
Titles == {"", "t"}
Labels == {"n"}
\* the render passes that share the image cache
Passes == 1..MaxPasses

StartParagraph ==
    /\ SrcStart("Paragraph", None)
    /\ ui' = ui \o flush_block_content
    /\ current_job' = <<>>
    /\ last' = Ev("StartParagraph")
    /\ UNCHANGED <<inline_style_stack, block_stack, list_item_number,
                   tableVars, codeVars, linkVars, pc>>
    /\ Quiet

StartHeading ==
    \E level \in HeadingLevels :
        /\ SrcStart("Heading", Some(level))
        /\ ui' = ui \o flush_block_content
                    \o <<Space(heading_spacing(level, TRUE))>>
        /\ current_job' = <<>>
        /\ inline_style_stack' =
              Append(inline_style_stack,
                     WithFont(base_format, heading_font_size(level),
                              "Proportional"))
        /\ last' = [kind |-> "StartHeading", level |-> level]
        /\ UNCHANGED <<block_stack, list_item_number, tableVars, codeVars,
                       linkVars, pc>>
        /\ Quiet

StartBlockQuote ==
    /\ SrcStart("BlockQuote", None)
    /\ ui' = ui \o flush_block_content \o <<Space(40), QuoteBar>>
    /\ current_job' = <<>>
    /\ block_stack' = Append(block_stack, BlockQuoteInfo)
    /\ last' = Ev("StartBlockQuote")
    /\ UNCHANGED <<inline_style_stack, list_item_number, tableVars, codeVars,
                   linkVars, pc>>
    /\ Quiet

StartList ==
    \E start_num \in ListStarts :
        /\ SrcStart("List", start_num)
        /\ ui' = ui \o flush_block_content \o <<Space(40)>>
        /\ current_job' = <<>>
        /\ block_stack' = Append(block_stack, BlockList(start_num))
        /\ list_item_number' = start_num
        /\ last' = [kind |-> "StartList", start |-> start_num]
        /\ UNCHANGED <<inline_style_stack, tableVars, codeVars, linkVars, pc>>
        /\ Quiet

StartItem ==
    /\ SrcStart("Item", None)
    /\ ui' = ui \o flush_block_content
                \o <<Marker(IF indent_level = 0 THEN 0 ELSE indent_level - 1,
                            item_marker),
                     Space(20)>>
    /\ current_job' = <<>>
    /\ list_item_number' =
          IF list_item_number # None
          THEN Some(list_item_number[1] + 1) ELSE None
    /\ last' = Ev("StartItem")
    /\ UNCHANGED <<inline_style_stack, block_stack, tableVars, codeVars,
                   linkVars, pc>>
    /\ Quiet

StartTable ==
    /\ SrcStart("Table", None)
    /\ ui' = ui \o flush_block_content \o <<Space(60)>>
    /\ current_job' = <<>>
    /\ block_stack' = Append(block_stack, BlockTable)
    /\ table_rows' = <<>>
    /\ last' = Ev("StartTable")
    /\ UNCHANGED <<inline_style_stack, list_item_number, in_table_header,
                   current_cell_job, codeVars, linkVars, pc>>
    /\ Quiet

StartTableHead ==
    /\ SrcStart("TableHead", None)
    /\ in_table_header' = TRUE
    /\ table_rows' = Append(table_rows, <<>>)
    /\ current_cell_job' = <<>>
    /\ last' = Ev("StartTableHead")
    /\ UNCHANGED <<inline_style_stack, block_stack, current_job,
                   list_item_number, codeVars, linkVars, ui, pc>>
    /\ Quiet

StartTableRow ==
    /\ SrcStart("TableRow", None)
    /\ in_table_header' = FALSE
    /\ table_rows' = Append(table_rows, <<>>)
    /\ current_cell_job' = <<>>
    /\ last' = Ev("StartTableRow")
    /\ UNCHANGED <<inline_style_stack, block_stack, current_job,
                   list_item_number, codeVars, linkVars, ui, pc>>
    /\ Quiet

\* mutant: every cell pushes a style, header row or not
StartTableCellAlwaysPushes ==
    /\ SrcStart("TableCell", None)
    /\ current_cell_job' = <<>>
    /\ inline_style_stack' =
          Append(inline_style_stack,
                 WithFont(current_format, current_format.size, "Proportional"))
    /\ last' = Ev("StartTableCell")
    /\ UNCHANGED <<block_stack, current_job, list_item_number,
                   in_table_header, table_rows, codeVars, linkVars, ui, pc>>
    /\ Quiet

StartTableCell ==
    /\ SrcStart("TableCell", None)
    /\ current_cell_job' = <<>>
    /\ inline_style_stack' =
          IF in_table_header
          THEN Append(inline_style_stack,
                      WithFont(current_format, current_format.size,
                               "Proportional"))
          ELSE inline_style_stack
    /\ last' = Ev("StartTableCell")
    /\ UNCHANGED <<block_stack, current_job, list_item_number,
                   in_table_header, table_rows, codeVars, linkVars, ui, pc>>
    /\ Quiet

\* inline_style_stack.last().unwrap() panics on an empty stack
EmphasisFormat(fmt) == [fmt EXCEPT !.italics = TRUE]
StrongFormat(fmt) == WithFont(fmt, fmt.size, "Proportional")
StrikethroughFormat(fmt) == [fmt EXCEPT !.strikethrough = Stroke(10, fmt.color)]
LinkFormat(fmt) ==
    [fmt EXCEPT !.color = "hyperlink_color",
                !.underline = Stroke(10, "hyperlink_color")]

StartEmphasis ==
    /\ SrcStart("Emphasis", None)
    /\ IF inline_style_stack = <<>>
       THEN pc' = "panic" /\ UNCHANGED inline_style_stack
       ELSE /\ inline_style_stack' =
                  Append(inline_style_stack,
                         EmphasisFormat(Top(inline_style_stack)))
            /\ UNCHANGED pc
    /\ last' = Ev("StartEmphasis")
    /\ UNCHANGED <<block_stack, current_job, list_item_number, tableVars,
                   codeVars, linkVars, ui>>
    /\ Quiet

StartStrong ==
    /\ SrcStart("Strong", None)
    /\ IF inline_style_stack = <<>>
       THEN pc' = "panic" /\ UNCHANGED inline_style_stack
       ELSE /\ inline_style_stack' =
                  Append(inline_style_stack,
                         StrongFormat(Top(inline_style_stack)))
            /\ UNCHANGED pc
    /\ last' = Ev("StartStrong")
    /\ UNCHANGED <<block_stack, current_job, list_item_number, tableVars,
                   codeVars, linkVars, ui>>
    /\ Quiet

\* a Strikethrough open that flushes the current job first
StartStrikethroughFlushes ==
    /\ SrcStart("Strikethrough", None)
    /\ IF inline_style_stack = <<>>
       THEN pc' = "panic" /\ UNCHANGED inline_style_stack
       ELSE /\ inline_style_stack' =
                  Append(inline_style_stack,
                         StrikethroughFormat(Top(inline_style_stack)))
            /\ UNCHANGED pc
    /\ ui' = ui \o flush_inline_content(FALSE)
    /\ current_job' = <<>>
    /\ last' = Ev("StartStrikethrough")
    /\ UNCHANGED <<block_stack, list_item_number, tableVars,
                   codeVars, linkVars>>
    /\ Quiet

StartStrikethrough ==
    /\ SrcStart("Strikethrough", None)
    /\ IF inline_style_stack = <<>>
       THEN pc' = "panic" /\ UNCHANGED inline_style_stack
       ELSE /\ inline_style_stack' =
                  Append(inline_style_stack,
                         StrikethroughFormat(Top(inline_style_stack)))
            /\ UNCHANGED pc
    /\ last' = Ev("StartStrikethrough")
    /\ UNCHANGED <<block_stack, current_job, list_item_number, tableVars,
                   codeVars, linkVars, ui>>
    /\ Quiet

\* a link open that leaves the current job for a later flush
StartLinkKeepsJob ==
    \E dest_url \in Urls :
        /\ SrcStart("Link", Some(dest_url))
        /\ IF inline_style_stack = <<>>
           THEN pc' = "panic" /\ UNCHANGED <<inline_style_stack, linkVars>>
           ELSE /\ inline_style_stack' =
                      Append(inline_style_stack,
                             LinkFormat(Top(inline_style_stack)))
                /\ current_link_url' = Some(dest_url)
                /\ current_link_text' = <<>>
                /\ UNCHANGED pc
        /\ last' = [kind |-> "StartLink", url |-> dest_url]
        /\ UNCHANGED <<block_stack, list_item_number, tableVars, codeVars,
                       ui, current_job>>
        /\ Quiet

\* a link open that empties the current job without issuing it
StartLinkWithoutFlush ==
    \E dest_url \in Urls :
        /\ SrcStart("Link", Some(dest_url))
        /\ ui' = ui
        /\ current_job' = <<>>
        /\ IF inline_style_stack = <<>>
           THEN pc' = "panic" /\ UNCHANGED <<inline_style_stack, linkVars>>
           ELSE /\ inline_style_stack' =
                      Append(inline_style_stack,
                             LinkFormat(Top(inline_style_stack)))
                /\ current_link_url' = Some(dest_url)
                /\ current_link_text' = <<>>
                /\ UNCHANGED pc
        /\ last' = [kind |-> "StartLink", url |-> dest_url]
        /\ UNCHANGED <<block_stack, list_item_number, tableVars, codeVars>>
        /\ Quiet

StartLink ==
    \E dest_url \in Urls :
        /\ SrcStart("Link", Some(dest_url))
        /\ ui' = ui \o flush_inline_content(FALSE)
        /\ current_job' = <<>>
        /\ IF inline_style_stack = <<>>
           THEN pc' = "panic" /\ UNCHANGED <<inline_style_stack, linkVars>>
           ELSE /\ inline_style_stack' =
                      Append(inline_style_stack,
                             LinkFormat(Top(inline_style_stack)))
                /\ current_link_url' = Some(dest_url)
                /\ current_link_text' = <<>>
                /\ UNCHANGED pc
        /\ last' = [kind |-> "StartLink", url |-> dest_url]
        /\ UNCHANGED <<block_stack, list_item_number, tableVars, codeVars>>
        /\ Quiet

\* render_image: the hover text is "{alt} ({url})" or the url
image_hover(url, alt_text) ==
    IF alt_text # "" THEN <<alt_text, " (", url, ")">> ELSE <<url>>
render_image(url, alt_text) ==
    <<Space(40), ImageCmd(url, image_hover(url, alt_text)), Space(40)>>

\* an image open that leaves the current job for a later flush
StartImageKeepsJob ==
    \E dest_url \in Urls, title \in Titles :
        /\ SrcStart("Image", None)
        /\ cache_lock = None
        /\ image_loads' =
              IF image_cache[dest_url] = "present" THEN image_loads
              ELSE [image_loads EXCEPT ![dest_url] = @ + 1]
        /\ image_cache' = [image_cache EXCEPT ![dest_url] = "present"]
        /\ ui' = ui \o render_image(dest_url, title)
        /\ last' = [kind |-> "StartImage", url |-> dest_url, title |-> title]
        /\ UNCHANGED <<inline_style_stack, block_stack, list_item_number,
                       tableVars, codeVars, linkVars, pc, cache_lock,
                       current_job>>
        /\ Step

\* render_image run by the pass itself, from the lock of the cache to its
\* release: the image is loaded when the cache does not hold it
StartImage ==
    \E dest_url \in Urls, title \in Titles :
        /\ SrcStart("Image", None)
        /\ cache_lock = None
        /\ image_loads' =
              IF image_cache[dest_url] = "present" THEN image_loads
              ELSE [image_loads EXCEPT ![dest_url] = @ + 1]
        /\ image_cache' = [image_cache EXCEPT ![dest_url] = "present"]
        /\ ui' = ui \o flush_inline_content(FALSE)
                    \o render_image(dest_url, title)
        /\ current_job' = <<>>
        /\ last' = [kind |-> "StartImage", url |-> dest_url, title |-> title]
        /\ UNCHANGED <<inline_style_stack, block_stack, list_item_number,
                       tableVars, codeVars, linkVars, pc, cache_lock>>
        /\ Step

\* render_image run by one of several passes, step by step.  The pass has
\* reached an image and calls render_image.
ImgRequest(t) ==
    \E url \in Urls :
        /\ img_pc[t] = "idle"
        /\ img_pc' = [img_pc EXCEPT ![t] = "lock"]
        /\ img_url' = [img_url EXCEPT ![t] = Some(url)]
        /\ img_seen' = [img_seen EXCEPT ![t] = None]
        /\ UNCHANGED <<rsVars, ui, pc, srcVars, last, cacheVars, passVars, app>>

\* a lock that does not wait for the owner of the mutex
ImgLockNoWait(t) ==
    /\ img_pc[t] = "lock"
    /\ cache_lock' = Some(t)
    /\ img_pc' = [img_pc EXCEPT ![t] = "entry"]
    /\ UNCHANGED <<rsVars, ui, pc, srcVars, last, image_cache, image_loads,
                   img_url, img_seen, passVars, app>>

\* IMAGE_CACHE.lock(): waits until the mutex is free
ImgLock(t) ==
    /\ img_pc[t] = "lock"
    /\ cache_lock = None
    /\ cache_lock' = Some(t)
    /\ img_pc' = [img_pc EXCEPT ![t] = "entry"]
    /\ UNCHANGED <<rsVars, ui, pc, srcVars, last, image_cache, image_loads,
                   img_url, img_seen, passVars, app>>

\* cache.entry(url): an occupied entry is used as it is, for a vacant one the
\* closure of or_insert_with starts to load the image
ImgEntry(t) ==
    /\ img_pc[t] = "entry"
    /\ img_seen' = [img_seen EXCEPT ![t] = Some(image_cache[img_url[t][1]])]
    /\ IF image_cache[img_url[t][1]] = "absent"
       THEN /\ image_cache' = [image_cache EXCEPT ![img_url[t][1]] = "loading"]
            /\ image_loads' = [image_loads EXCEPT ![img_url[t][1]] = @ + 1]
            /\ img_pc' = [img_pc EXCEPT ![t] = "insert"]
       ELSE /\ img_pc' = [img_pc EXCEPT ![t] = "draw"]
            /\ UNCHANGED <<image_cache, image_loads>>
    /\ UNCHANGED <<rsVars, ui, pc, srcVars, last, cache_lock, img_url,
                   passVars, app>>

\* the closure has returned: the loaded image is inserted
ImgInsert(t) ==
    /\ img_pc[t] = "insert"
    /\ image_cache' = [image_cache EXCEPT ![img_url[t][1]] = "present"]
    /\ img_pc' = [img_pc EXCEPT ![t] = "draw"]
    /\ UNCHANGED <<rsVars, ui, pc, srcVars, last, cache_lock, image_loads,
                   img_url, img_seen, passVars, app>>

\* the widget is built from the entry and added, the guard still held
ImgDraw(t) ==
    /\ img_pc[t] = "draw"
    /\ img_pc' = [img_pc EXCEPT ![t] = "unlock"]
    /\ UNCHANGED <<rsVars, ui, pc, srcVars, last, cacheVars, img_url,
                   img_seen, passVars, app>>

\* render_image returns: the guard is dropped
ImgUnlock(t) ==
    /\ img_pc[t] = "unlock"
    /\ cache_lock' = IF cache_lock = Some(t) THEN None ELSE cache_lock
    /\ img_pc' = [img_pc EXCEPT ![t] = "idle"]
    /\ UNCHANGED <<rsVars, ui, pc, srcVars, last, image_cache, image_loads,
                   img_url, img_seen, passVars, app>>

StartFootnoteDefinition ==
    \E label \in Labels :
        /\ SrcStart("FootnoteDefinition", None)
        /\ ui' = ui \o flush_block_content
                    \o <<Space(40), PlainLabel(<<"[^", label, "]:">>)>>
        /\ current_job' = <<>>
        /\ last' = [kind |-> "StartFootnoteDefinition", label |-> label]
        /\ UNCHANGED <<inline_style_stack, block_stack, list_item_number,
                       tableVars, codeVars, linkVars, pc>>
        /\ Quiet


(***************************************************************************)
(* Code blocks: the syntax catalog, the line colorizer, render_code_block. *)
(***************************************************************************)
\* language tokens a fence may carry; "" is the empty token
LangTokens == {"", "rs", "zz"}
PlainText == "Plain Text"

\* SYNTAX_SET.find_syntax_by_token
find_syntax_by_token(lang) == IF lang = "rs" THEN Some("Rust") ELSE None

\* a syntax lookup without the fallback to plain text
resolve_syntax_no_fallback(language) ==
    IF language = None THEN PlainText
    ELSE IF find_syntax_by_token(language[1]) # None
         THEN find_syntax_by_token(language[1])[1]
         ELSE language[1]

\* the syntax a code block is highlighted with
resolve_syntax(language) ==
    IF language # None /\ find_syntax_by_token(language[1]) # None
    THEN find_syntax_by_token(language[1])[1]
    ELSE PlainText

\* CodeBlockKind::Fenced(lang) if !lang.is_empty() => Some(lang), _ => None
language_of(kind) ==
    IF kind.fenced /\ kind.lang # "" THEN Some(kind.lang) ELSE None

CodeBlockKinds ==
    {[fenced |-> FALSE, lang |-> ""]} \cup
    {[fenced |-> TRUE, lang |-> l] : l \in LangTokens}

\* LinesWithEndings: the lines of a text, each with its line ending
RECURSIVE LinesFrom(_, _)
LinesFrom(text, cur) ==
    IF text = <<>> THEN (IF cur = <<>> THEN <<>> ELSE <<cur>>)
    ELSE IF Head(text) = "\n"
         THEN <<Append(cur, "\n")>> \o LinesFrom(Tail(text), <<>>)
         ELSE LinesFrom(Tail(text), Append(cur, Head(text)))
LinesWithEndings(text) == LinesFrom(text, <<>>)

\* the colorizer: the styled ranges of one line.  Plain text is one range;
\* the Rust syntax gives every token its own range, keywords in italics.
Keywords == {"fn"}
SynStyle(tok) ==
    IF tok \in Keywords THEN [foreground |-> "theme_keyword", italic |-> TRUE]
    ELSE [foreground |-> "theme_fg", italic |-> FALSE]
highlight_line(line, syntax) ==
    IF syntax = PlainText
    THEN <<[style |-> [foreground |-> "theme_fg", italic |-> FALSE],
            text |-> line]>>
    ELSE [i \in 1..Len(line) |-> [style |-> SynStyle(line[i]),
                                  text |-> <<line[i]>>]]

syntect_style_to_text_format(style) ==
    [WithFont(DefaultFormat, CODE_FONT_SIZE, "Monospace")
        EXCEPT !.color = style.foreground, !.italics = style.italic]

PlainCodeFormat ==
    [WithFont(DefaultFormat, CODE_FONT_SIZE, "Monospace")
        EXCEPT !.color = "text_color"]

\* the sections the loop over the lines appends; the colorizer fails on line
\* failAt (0: on none), where the whole code is appended and the loop breaks
RECURSIVE HighlightLoop(_, _, _, _, _)
HighlightLoop(lines, i, syntax, failAt, code) ==
    IF i > Len(lines) THEN <<>>
    ELSE IF i = failAt THEN <<Section(code, PlainCodeFormat)>>
    ELSE [j \in 1..Len(highlight_line(lines[i], syntax)) |->
             Section(highlight_line(lines[i], syntax)[j].text,
                     syntect_style_to_text_format(
                         highlight_line(lines[i], syntax)[j].style))]
         \o HighlightLoop(lines, i + 1, syntax, failAt, code)

\* render_code_block: the job of the label it adds
code_block_job(code, hl, failAt) ==
    IF hl # None
    THEN HighlightLoop(LinesWithEndings(code), 1, hl[1], failAt, code)
    ELSE <<Section(code, PlainCodeFormat)>>

StartCodeBlock ==
    \E kind \in CodeBlockKinds :
        /\ SrcStart("CodeBlock", Some(kind))
        /\ ui' = ui \o flush_block_content \o <<Space(40)>>
        /\ current_job' = <<>>
        /\ code_language' = language_of(kind)
        /\ code_block_content' = <<>>
        /\ highlighter' = Some(resolve_syntax(language_of(kind)))
        /\ last' = [kind |-> "StartCodeBlock", block |-> kind]
        /\ UNCHANGED <<inline_style_stack, block_stack, list_item_number,
                       tableVars, linkVars, pc>>
        /\ Quiet

(***************************************************************************)
(* Event::End handlers.                                                    *)
(***************************************************************************)
EndParagraph ==
    /\ SrcEnd("Paragraph")
    /\ ui' = ui \o flush_inline_content(TRUE)
    /\ current_job' = <<>>
    /\ last' = Ev("EndParagraph")
    /\ UNCHANGED <<inline_style_stack, block_stack, list_item_number,
                   tableVars, codeVars, linkVars, pc>>
    /\ Quiet

EndHeading ==
    \E level \in HeadingLevels :
        /\ SrcEnd("Heading")
        /\ Ctx = "Heading" => Top(open).arg = Some(level)
        /\ inline_style_stack' = PopIfAny(inline_style_stack)
        /\ ui' = ui \o flush_inline_content(FALSE)
                    \o <<Space(heading_spacing(level, FALSE))>>
        /\ current_job' = <<>>
        /\ last' = [kind |-> "EndHeading", level |-> level]
        /\ UNCHANGED <<block_stack, list_item_number, tableVars, codeVars,
                       linkVars, pc>>
        /\ Quiet


EndBlockQuote ==
    /\ SrcEnd("BlockQuote")
    /\ ui' = ui \o flush_block_content \o <<Space(60)>>
    /\ current_job' = <<>>
    /\ block_stack' = PopIfAny(block_stack)
    /\ last' = Ev("EndBlockQuote")
    /\ UNCHANGED <<inline_style_stack, list_item_number, tableVars, codeVars,
                   linkVars, pc>>
    /\ Quiet

\* a close that leaves the highlighter in place
EndCodeBlockKeepsSession ==
    \E failAt \in 0..Len(LinesWithEndings(code_block_content)) :
        /\ SrcEnd("CodeBlock")
        /\ ui' = ui \o <<CodeCmd(code_block_job(code_block_content,
                                                highlighter, failAt)),
                         Space(60)>>
        /\ code_block_content' = <<>>
        /\ code_language' = None
        /\ last' = [kind |-> "EndCodeBlock", failAt |-> failAt,
                    code |-> code_block_content, language |-> code_language]
        /\ UNCHANGED <<inline_style_stack, block_stack, current_job,
                       list_item_number, tableVars, linkVars, highlighter, pc>>
        /\ Quiet

EndCodeBlock ==
    \E failAt \in 0..Len(LinesWithEndings(code_block_content)) :
        /\ SrcEnd("CodeBlock")
        /\ ui' = ui \o <<CodeCmd(code_block_job(code_block_content,
                                                highlighter, failAt)),
                         Space(60)>>
        /\ code_block_content' = <<>>
        /\ highlighter' = None
        /\ code_language' = None
        /\ last' = [kind |-> "EndCodeBlock", failAt |-> failAt,
                    code |-> code_block_content, language |-> code_language]
        /\ UNCHANGED <<inline_style_stack, block_stack, current_job,
                       list_item_number, tableVars, linkVars, pc>>
        /\ Quiet

EndList ==
    /\ SrcEnd("List")
    /\ ui' = ui \o flush_block_content \o <<Space(60)>>
    /\ current_job' = <<>>
    /\ block_stack' = PopIfAny(block_stack)
    /\ list_item_number' = get_parent_list_num(PopIfAny(block_stack))
    /\ last' = Ev("EndList")
    /\ UNCHANGED <<inline_style_stack, tableVars, codeVars, linkVars, pc>>
    /\ Quiet

EndItem ==
    /\ SrcEnd("Item")
    /\ ui' = ui \o flush_inline_content(TRUE)
    /\ current_job' = <<>>
    /\ last' = Ev("EndItem")
    /\ UNCHANGED <<inline_style_stack, block_stack, list_item_number,
                   tableVars, codeVars, linkVars, pc>>
    /\ Quiet

\* render_table: the commands it issues for the rows taken
\* a column count taken from the first row alone
num_columns_of_first_row(rows) ==
    IF rows = <<>> THEN 0 ELSE Len(rows[1])

num_columns(rows) ==
    IF rows = <<>> THEN 0
    ELSE CHOOSE n \in {Len(rows[i]) : i \in 1..Len(rows)} :
             \A i \in 1..Len(rows) : Len(rows[i]) <= n
render_table(rows) ==
    IF rows = <<>> THEN <<>>
    ELSE IF num_columns(rows) = 0 THEN <<>>
    ELSE <<GridCmd(num_columns(rows), rows)>>

\* a table close that leaves the rows in the accumulator
EndTableKeepsRows ==
    /\ SrcEnd("Table")
    /\ ui' = ui \o flush_block_content \o render_table(table_rows)
                \o <<Space(60)>>
    /\ current_job' = <<>>
    /\ block_stack' = PopIfAny(block_stack)
    /\ last' = Ev("EndTable")
    /\ UNCHANGED <<inline_style_stack, list_item_number, tableVars,
                   codeVars, linkVars, pc>>
    /\ Quiet

EndTable ==
    /\ SrcEnd("Table")
    /\ ui' = ui \o flush_block_content \o render_table(table_rows)
                \o <<Space(60)>>
    /\ current_job' = <<>>
    /\ table_rows' = <<>>
    /\ block_stack' = PopIfAny(block_stack)
    /\ last' = Ev("EndTable")
    /\ UNCHANGED <<inline_style_stack, list_item_number, in_table_header,
                   current_cell_job, codeVars, linkVars, pc>>
    /\ Quiet

EndTableHead ==
    /\ SrcEnd("TableHead")
    /\ last' = Ev("EndTableHead")
    /\ UNCHANGED <<rsVars, ui, pc>>
    /\ Quiet

EndTableRow ==
    /\ SrcEnd("TableRow")
    /\ last' = Ev("EndTableRow")
    /\ UNCHANGED <<rsVars, ui, pc>>
    /\ Quiet

\* a cell close that pops a style in every row
EndTableCellAlwaysPops ==
    /\ SrcEnd("TableCell")
    /\ table_rows' =
          IF table_rows # <<>>
          THEN [table_rows EXCEPT ![Len(table_rows)] =
                                      Append(@, current_cell_job)]
          ELSE table_rows
    /\ current_cell_job' = <<>>
    /\ inline_style_stack' = PopIfAny(inline_style_stack)
    /\ last' = Ev("EndTableCell")
    /\ UNCHANGED <<block_stack, current_job, list_item_number,
                   in_table_header, codeVars, linkVars, ui, pc>>
    /\ Quiet

EndTableCell ==
    /\ SrcEnd("TableCell")
    /\ table_rows' =
          IF table_rows # <<>>
          THEN [table_rows EXCEPT ![Len(table_rows)] =
                                      Append(@, current_cell_job)]
          ELSE table_rows
    /\ current_cell_job' = <<>>
    /\ inline_style_stack' =
          IF in_table_header THEN PopIfAny(inline_style_stack)
          ELSE inline_style_stack
    /\ last' = Ev("EndTableCell")
    /\ UNCHANGED <<block_stack, current_job, list_item_number,
                   in_table_header, codeVars, linkVars, ui, pc>>
    /\ Quiet

\* TagEnd::Emphasis | TagEnd::Strong | TagEnd::Strikethrough
\* a close of a style span that takes the popped style for granted
EndInlineStyleUnwraps ==
    \E tag \in {"Emphasis", "Strong", "Strikethrough"} :
        /\ SrcEnd(tag)
        /\ inline_style_stack' = PopIfAny(inline_style_stack)
        /\ pc' = IF inline_style_stack = <<>> THEN "panic" ELSE pc
        /\ last' = [kind |-> "EndInlineStyle", tag |-> tag]
        /\ UNCHANGED <<block_stack, current_job, list_item_number, tableVars,
                       codeVars, linkVars, ui>>
        /\ Quiet

EndInlineStyle ==
    \E tag \in {"Emphasis", "Strong", "Strikethrough"} :
        /\ SrcEnd(tag)
        /\ inline_style_stack' = PopIfAny(inline_style_stack)
        /\ last' = [kind |-> "EndInlineStyle", tag |-> tag]
        /\ UNCHANGED <<block_stack, current_job, list_item_number, tableVars,
                       codeVars, linkVars, ui, pc>>
        /\ Quiet

\* a link close that leaves the accumulated text in the buffer
EndLinkKeepsText ==
    /\ SrcEnd("Link")
    /\ inline_style_stack' = PopIfAny(inline_style_stack)
    /\ IF current_link_url # None
       THEN /\ ui' = ui \o <<LinkCmd(current_link_text, current_link_url[1])>>
            /\ current_link_url' = None
            /\ UNCHANGED current_link_text
       ELSE UNCHANGED <<ui, linkVars>>
    /\ last' = Ev("EndLink")
    /\ UNCHANGED <<block_stack, current_job, list_item_number, tableVars,
                   codeVars, pc>>
    /\ Quiet

EndLink ==
    /\ SrcEnd("Link")
    /\ inline_style_stack' = PopIfAny(inline_style_stack)
    /\ IF current_link_url # None
       THEN /\ ui' = ui \o <<LinkCmd(current_link_text, current_link_url[1])>>
            /\ current_link_url' = None
            /\ current_link_text' = <<>>
       ELSE UNCHANGED <<ui, linkVars>>
    /\ last' = Ev("EndLink")
    /\ UNCHANGED <<block_stack, current_job, list_item_number, tableVars,
                   codeVars, pc>>
    /\ Quiet

EndImage ==
    /\ SrcEnd("Image")
    /\ last' = Ev("EndImage")
    /\ UNCHANGED <<rsVars, ui, pc>>
    /\ Quiet

EndFootnoteDefinition ==
    /\ SrcEnd("FootnoteDefinition")
    /\ ui' = ui \o flush_block_content
    /\ current_job' = <<>>
    /\ last' = Ev("EndFootnoteDefinition")
    /\ UNCHANGED <<inline_style_stack, block_stack, list_item_number,
                   tableVars, codeVars, linkVars, pc>>
    /\ Quiet


(***************************************************************************)
(* Leaf events.                                                            *)
(***************************************************************************)
Texts == {<<"a">>, <<"b">>}
CodeTexts == {<<"fn", " ", "x", "\n">>, <<"y">>}
Codes == {<<"c">>}
Htmls == {<<"<br>", "\n">>, <<"<hr>", "\n">>}
InlineHtmls == {<<"<br/>">>, <<"<b>">>}

\* the text payloads the source offers in the current context
TextsHere == IF Ctx = "CodeBlock" THEN CodeTexts ELSE Texts

\* str::trim
Whitespace == {" ", "\n"}
RECURSIVE TrimStart(_)
TrimStart(t) ==
    IF t # <<>> /\ Head(t) \in Whitespace THEN TrimStart(Tail(t)) ELSE t
RECURSIVE TrimEnd(_)
TrimEnd(t) ==
    IF t # <<>> /\ Top(t) \in Whitespace THEN TrimEnd(Pop(t)) ELSE t
Trim(t) == TrimEnd(TrimStart(t))
IsBr(html) == Trim(html) \in {<<"<br>">>, <<"<br/>">>, <<"<br />">>}

\* the section appended for raw markup
html_section(prefix, html) ==
    IF IsBr(html) THEN Section(<<"\n">>, current_format)
    ELSE Section(<<prefix>> \o Trim(html) \o <<"]">>,
                 [current_format EXCEPT !.italics = TRUE,
                                        !.color = "weak_text_color"])

\* the text a Text event appends to the current job
\* a text section that ignores the inline style
text_section_plain(text) == Section(text, base_format)

text_section(text) == Section(text, current_format)

EvText ==
    \E text \in TextsHere :
        /\ SrcLeaf("Text", text)
        /\ IF highlighter # None
           THEN /\ code_block_content' = code_block_content \o text
                /\ UNCHANGED <<current_job, current_cell_job,
                               current_link_text>>
           ELSE IF current_link_url # None
           THEN /\ current_link_text' = current_link_text \o text
                /\ UNCHANGED <<current_job, current_cell_job,
                               code_block_content>>
           ELSE /\ current_job' = Append(current_job, text_section(text))
                /\ current_cell_job' =
                      IF top_is_table
                      THEN Append(current_cell_job, text_section(text))
                      ELSE current_cell_job
                /\ UNCHANGED <<code_block_content, current_link_text>>
        /\ last' = [kind |-> "Text", text |-> text]
        /\ UNCHANGED <<inline_style_stack, block_stack, list_item_number,
                       in_table_header, table_rows, highlighter,
                       code_language, current_link_url, ui, pc>>
        /\ Quiet

\* the character U+0060 that delimits inline code
Backtick == "U+0060"

code_format ==
    [WithFont(current_format, CODE_FONT_SIZE, "Monospace")
        EXCEPT !.background = "code_bg_color"]

EvCode ==
    \E text \in Codes :
        /\ SrcLeaf("Code", text)
        /\ IF current_link_url # None
           THEN /\ current_link_text' =
                      current_link_text \o <<Backtick>> \o text \o <<Backtick>>
                /\ UNCHANGED <<current_job, current_cell_job>>
           ELSE /\ current_job' =
                      current_job \o <<Section(<<Backtick>>, code_format),
                                       Section(text, code_format),
                                       Section(<<Backtick>>, code_format)>>
                /\ current_cell_job' =
                      IF top_is_table
                      THEN Append(current_cell_job,
                                  Section(<<Backtick>> \o text \o <<Backtick>>,
                                          code_format))
                      ELSE current_cell_job
                /\ UNCHANGED current_link_text
        /\ last' = [kind |-> "Code", text |-> text]
        /\ UNCHANGED <<inline_style_stack, block_stack, list_item_number,
                       in_table_header, table_rows, codeVars,
                       current_link_url, ui, pc>>
        /\ Quiet

EvHtml ==
    \E html \in Htmls :
        /\ SrcLeaf("Html", html)
        /\ current_job' = Append(current_job, html_section("[HTML: ", html))
        /\ last' = [kind |-> "Html", text |-> html]
        /\ UNCHANGED <<inline_style_stack, block_stack, list_item_number,
                       tableVars, codeVars, linkVars, ui, pc>>
        /\ Quiet

EvInlineHtml ==
    \E html \in InlineHtmls :
        /\ SrcLeaf("InlineHtml", html)
        /\ current_job' =
              Append(current_job, html_section("[Inline HTML: ", html))
        /\ last' = [kind |-> "InlineHtml", text |-> html]
        /\ UNCHANGED <<inline_style_stack, block_stack, list_item_number,
                       tableVars, codeVars, linkVars, ui, pc>>
        /\ Quiet

EvFootnoteReference ==
    \E label \in Labels :
        /\ SrcLeaf("FootnoteReference", <<label>>)
        /\ current_job' =
              Append(current_job,
                     Section(<<"[^", label, "]">>,
                             [current_format EXCEPT
                                 !.size = (@ * 8) \div 10,
                                 !.valign = "TOP"]))
        /\ last' = [kind |-> "FootnoteReference", label |-> label]
        /\ UNCHANGED <<inline_style_stack, block_stack, list_item_number,
                       tableVars, codeVars, linkVars, ui, pc>>
        /\ Quiet

\* SoftBreak appends " ", HardBreak "\n" ("\n" to the code of a code block)
break_event(kind, codeText, linkText, jobText) ==
    /\ SrcLeaf(kind, <<>>)
    /\ IF highlighter # None
       THEN /\ code_block_content' = Append(code_block_content, codeText)
            /\ UNCHANGED <<current_job, current_link_text>>
       ELSE IF current_link_url # None
       THEN /\ current_link_text' = Append(current_link_text, linkText)
            /\ UNCHANGED <<current_job, code_block_content>>
       ELSE /\ current_job' =
                  Append(current_job, Section(<<jobText>>, current_format))
            /\ UNCHANGED <<code_block_content, current_link_text>>
    /\ last' = Ev(kind)
    /\ UNCHANGED <<inline_style_stack, block_stack, list_item_number,
                   tableVars, highlighter, code_language, current_link_url,
                   ui, pc>>
    /\ Quiet

EvSoftBreak == break_event("SoftBreak", "\n", " ", " ")
EvHardBreak == break_event("HardBreak", "\n", "\n", "\n")

EvRule ==
    /\ SrcLeaf("Rule", <<>>)
    /\ ui' = ui \o flush_block_content
                \o <<Space(80), SeparatorCmd, Space(80)>>
    /\ current_job' = <<>>
    /\ last' = Ev("Rule")
    /\ UNCHANGED <<inline_style_stack, block_stack, list_item_number,
                   tableVars, codeVars, linkVars, pc>>
    /\ Quiet

task_marker(checked) == IF checked THEN <<"[x] ">> ELSE <<"[ ] ">>

EvTaskListMarker ==
    \E checked \in BOOLEAN :
        /\ SrcLeaf("TaskListMarker", <<>>)
        /\ current_job' =
              <<Section(task_marker(checked), current_format)>> \o current_job
        /\ current_cell_job' =
              IF top_is_table
              THEN <<Section(task_marker(checked), current_format)>>
                   \o current_cell_job
              ELSE current_cell_job
        /\ last' = [kind |-> "TaskListMarker", checked |-> checked]
        /\ UNCHANGED <<inline_style_stack, block_stack, list_item_number,
                       in_table_header, table_rows, codeVars, linkVars,
                       ui, pc>>
        /\ Quiet

\* the end of the stream: the final flush_block_content
Finish ==
    /\ pc = "run"
    /\ strict => open = <<>>
    /\ ui' = ui \o flush_block_content
    /\ current_job' = <<>>
    /\ pc' = "done"
    /\ wf' = (wf /\ open = <<>>)
    /\ balanced' = (balanced /\ open = <<>>)
    /\ last' = Ev("Finish")
    /\ UNCHANGED <<inline_style_stack, block_stack, list_item_number,
                   tableVars, codeVars, linkVars,
                   strict, cap, used, events, open>>
    /\ Quiet

(***************************************************************************)
(* The state render_markdown constructs, and the specifications: one per   *)
(* family of streams.                                                      *)
(***************************************************************************)
InitState(strictness, caps) ==
    /\ inline_style_stack = <<base_format>>
    /\ block_stack = <<>>
    /\ current_job = <<>>
    /\ list_item_number = None
    /\ in_table_header = FALSE
    /\ table_rows = <<>>
    /\ current_cell_job = <<>>
    /\ highlighter = None
    /\ code_language = None
    /\ code_block_content = <<>>
    /\ current_link_url = None
    /\ current_link_text = <<>>
    /\ ui = <<>>
    /\ pc = "run"
    /\ strict \in strictness
    /\ cap = caps
    /\ used = [c \in Cats |-> 0]
    /\ events = 0
    /\ open = <<>>
    /\ wf = TRUE
    /\ balanced = TRUE
    /\ last = Ev("None")
    /\ image_cache = [u \in Urls |-> "absent"]
    /\ cache_lock = None
    /\ image_loads = [u \in Urls |-> 0]
    /\ img_pc = [t \in Passes |-> "idle"]
    /\ img_url = [t \in Passes |-> None]
    /\ img_seen = [t \in Passes |-> None]
    /\ pass = 1
    /\ trace = <<>>
    /\ first_ui = <<>>
    /\ app = new_default

\* the caps of a scenario: those listed, none of the others; without a cap
\* on the total, the total is capped by the sum of the others.  "Any" caps
\* the events of a stream that need not obey the grammar, "Replay" is 1 when
\* the pass is run a second time over the same events.
RECURSIVE SumOf(_, _)
SumOf(list, keys) ==
    IF keys = {} THEN 0
    ELSE LET k == CHOOSE k \in keys : TRUE
         IN list[k] + SumOf(list, keys \ {k})
Caps(list) ==
    [c \in Cats |-> IF c \in DOMAIN list THEN list[c]
                    ELSE IF c = "Total" THEN SumOf(list, DOMAIN list)
                    ELSE IF c = "Any" THEN MaxAnyEvents
                    ELSE 0]

\* lists, items and text
CapsLists ==
    Caps([List |-> MaxLists, Item |-> MaxItems, Leaf |-> MaxListLeaves])
InitLists == InitState({TRUE}, CapsLists)
NextLists ==
    \/ StartList \/ StartItem \/ EvText \/ EndItem \/ EndList \/ Finish
SpecLists == InitLists /\ [][NextLists]_vars


\* paragraphs of text and style spans
CapsPara ==
    Caps([Paragraph |-> MaxParagraphs, Span |-> MaxSpans,
          Leaf |-> MaxParaLeaves])
InitPara == InitState({TRUE}, CapsPara)
NextPara ==
    \/ StartParagraph \/ StartEmphasis \/ StartStrong \/ StartStrikethrough
    \/ EvText \/ EndParagraph \/ EndInlineStyle \/ Finish
SpecPara == InitPara /\ [][NextPara]_vars

\* links in a paragraph, with the leaves a link diverts
CapsLinks ==
    Caps([Paragraph |-> 1, Link |-> MaxLinks, Span |-> MaxLinkSpans,
          Leaf |-> MaxLinkLeaves, Total |-> MaxLinkEvents])
InitLinks == InitState({TRUE}, CapsLinks)
NextLinks ==
    \/ StartParagraph \/ StartLink \/ StartEmphasis \/ EvText \/ EvCode
    \/ EvSoftBreak \/ EvHardBreak
    \/ EndParagraph \/ EndLink \/ EndInlineStyle \/ Finish
SpecLinks == InitLinks /\ [][NextLinks]_vars

\* every construct that pushes an inline style: headings, header cells,
\* style spans and links
CapsDepth ==
    Caps([Heading |-> MaxHeadings, Span |-> MaxDepthSpans,
          Link |-> MaxDepthLinks, Leaf |-> MaxDepthLeaves,
          Table |-> 1, TableHead |-> 1, TableRow |-> MaxDepthRows,
          TableCell |-> MaxDepthCells, Total |-> MaxDepthEvents])
InitDepth == InitState({TRUE}, CapsDepth)
NextDepth ==
    \/ StartHeading \/ StartTable \/ StartTableHead
    \/ StartTableRow \/ StartTableCell \/ StartEmphasis \/ StartStrong
    \/ StartLink \/ EvText
    \/ EndHeading \/ EndTable \/ EndTableHead \/ EndTableRow
    \/ EndTableCell \/ EndInlineStyle \/ EndLink \/ Finish
SpecDepth == InitDepth /\ [][NextDepth]_vars


\* task-list items: text, links and task markers in the items of a list
CapsTask ==
    Caps([List |-> 1, Item |-> MaxTaskItems, Link |-> 1,
          Leaf |-> MaxTaskLeaves])
InitTask == InitState({TRUE}, CapsTask)
NextTask ==
    \/ StartList \/ StartItem \/ StartLink \/ EvText \/ EvTaskListMarker
    \/ EndLink \/ EndItem \/ EndList \/ Finish
SpecTask == InitTask /\ [][NextTask]_vars

\* one table: head, rows, cells and text
CapsTable ==
    Caps([Table |-> 1, TableHead |-> 1, TableRow |-> MaxRows,
          TableCell |-> MaxCells, Leaf |-> MaxTableLeaves,
          Total |-> MaxTableEvents])
InitTable == InitState({TRUE}, CapsTable)
NextTable ==
    \/ StartTable \/ StartTableHead \/ StartTableRow \/ StartTableCell
    \/ EvText \/ EndTableCell \/ EndTableRow \/ EndTableHead \/ EndTable
    \/ Finish
SpecTable == InitTable /\ [][NextTable]_vars

\* code blocks between paragraphs
CapsCode ==
    Caps([CodeBlock |-> MaxCodeBlocks, Paragraph |-> 1,
          Leaf |-> MaxCodeLeaves])
InitCode == InitState({TRUE}, CapsCode)
NextCode ==
    \/ StartCodeBlock \/ StartParagraph \/ EvText \/ EvSoftBreak
    \/ EvHardBreak \/ EndCodeBlock \/ EndParagraph \/ Finish
SpecCode == InitCode /\ [][NextCode]_vars

\* a second render_markdown call over the same events: the state of the
\* pass is constructed anew, on a new Ui; the image cache lives on
RestartKeepsStyles ==
    /\ pc = "done" /\ pass = 1 /\ cap["Replay"] > 0
    /\ pass' = 2
    /\ first_ui' = ui
    /\ ui' = <<>>
    /\ block_stack' = <<>>
    /\ current_job' = <<>>
    /\ in_table_header' = FALSE
    /\ table_rows' = <<>>
    /\ current_cell_job' = <<>>
    /\ highlighter' = None
    /\ code_language' = None
    /\ code_block_content' = <<>>
    /\ current_link_url' = None
    /\ current_link_text' = <<>>
    /\ pc' = "run"
    /\ used' = [c \in Cats |-> 0]
    /\ events' = 0
    /\ open' = <<>>
    /\ wf' = TRUE
    /\ balanced' = TRUE
    /\ last' = Ev("Restart")
    /\ UNCHANGED <<inline_style_stack, list_item_number, strict, cap, trace,
                   cacheVars, imgVars, app>>

Restart ==
    /\ pc = "done" /\ pass = 1 /\ cap["Replay"] > 0
    /\ pass' = 2
    /\ first_ui' = ui
    /\ ui' = <<>>
    /\ inline_style_stack' = <<base_format>>
    /\ block_stack' = <<>>
    /\ current_job' = <<>>
    /\ list_item_number' = None
    /\ in_table_header' = FALSE
    /\ table_rows' = <<>>
    /\ current_cell_job' = <<>>
    /\ highlighter' = None
    /\ code_language' = None
    /\ code_block_content' = <<>>
    /\ current_link_url' = None
    /\ current_link_text' = <<>>
    /\ pc' = "run"
    /\ used' = [c \in Cats |-> 0]
    /\ events' = 0
    /\ open' = <<>>
    /\ wf' = TRUE
    /\ balanced' = TRUE
    /\ last' = Ev("Restart")
    /\ UNCHANGED <<strict, cap, trace, cacheVars, imgVars, app>>

\* passes that ask for images side by side
InitImages == InitState({TRUE}, Caps([Leaf |-> 0]))
NextImages ==
    \E t \in Passes :
        \/ ImgRequest(t) \/ ImgLock(t) \/ ImgEntry(t) \/ ImgInsert(t)
        \/ ImgDraw(t) \/ ImgUnlock(t)
SpecImages == InitImages /\ [][NextImages]_vars

\* block containers, in streams that obey the grammar and in short streams
\* that need not
CapsBlocks ==
    Caps([BlockQuote |-> MaxQuotes, List |-> 1, Item |-> 1, Table |-> 1,
          Paragraph |-> 1, Leaf |-> 1])
InitBlocks == InitState(BOOLEAN, CapsBlocks)
NextBlocks ==
    \/ StartBlockQuote \/ StartList \/ StartItem \/ StartTable
    \/ StartParagraph \/ EvText
    \/ EndBlockQuote \/ EndList \/ EndItem \/ EndTable \/ EndParagraph
    \/ Finish
SpecBlocks == InitBlocks /\ [][NextBlocks]_vars

\* every event of the alphabet, in short streams that need not be balanced
Init == InitState({FALSE}, Caps([Leaf |-> 0]))
Next ==
    \/ StartParagraph \/ StartHeading \/ StartBlockQuote \/ StartCodeBlock
    \/ StartList \/ StartItem \/ StartTable \/ StartTableHead
    \/ StartTableRow \/ StartTableCell \/ StartEmphasis \/ StartStrong
    \/ StartStrikethrough \/ StartLink \/ StartImage
    \/ StartFootnoteDefinition
    \/ EndParagraph \/ EndHeading \/ EndBlockQuote \/ EndCodeBlock
    \/ EndList \/ EndItem \/ EndTable \/ EndTableHead \/ EndTableRow
    \/ EndTableCell \/ EndInlineStyle \/ EndLink \/ EndImage
    \/ EndFootnoteDefinition
    \/ EvText \/ EvCode \/ EvHtml \/ EvInlineHtml \/ EvFootnoteReference
    \/ EvSoftBreak \/ EvHardBreak \/ EvRule \/ EvTaskListMarker
    \/ Finish
Spec == Init /\ [][Next]_vars

(***************************************************************************)
(* Claims.                                                                 *)
(***************************************************************************)
\* the enclosing List of the Item just opened, as the source counts it
ItemList == open[Len(open) - 1]
AfterItemOfOrderedList ==
    /\ last.kind = "StartItem"
    /\ Len(open) >= 2
    /\ ItemList.tag = "List"
    /\ ItemList.arg # None

\* C1: in an ordered list starting at n, the k-th item is given the marker
\* "(n+k-1). ", also when earlier items of the list contain nested lists.
C1_MarkerSurvivesNestedLists ==
    AfterItemOfOrderedList =>
        ui[Len(ui) - 1].text =
            <<ToString(ItemList.arg[1] + ItemList.k - 1), ". ">>


C3_BlockStackEmptyAtEndOfAnyStream ==
    pc = "done" => block_stack = <<>>

\* C3 amended: at the end of every balanced stream the block stack is empty.
C3_BlockStackEmptyAtEndOfBalancedStream ==
    (pc = "done" /\ balanced) => block_stack = <<>>

\* a finished balanced stream that pushed a quote, a list and a table
C3_Witness ==
    /\ pc = "done" /\ balanced
    /\ used["BlockQuote"] > 0 /\ used["List"] > 0 /\ used["Table"] > 0

\* C4: no stream, balanced or not, takes the pass to a fatal state.
C4_NoFatalState == pc # "panic"


\* the pieces of text a command shows, in order
RECURSIVE SectionTexts(_)
SectionTexts(job) ==
    IF job = <<>> THEN <<>>
    ELSE <<Head(job).text>> \o SectionTexts(Tail(job))
CmdTexts(c) ==
    IF c.cmd = "label" THEN SectionTexts(c.job)
    ELSE IF c.cmd = "link" /\ c.text # <<>> THEN <<c.text>>
    ELSE <<>>
RECURSIVE TextsOf(_)
TextsOf(cmds) ==
    IF cmds = <<>> THEN <<>>
    ELSE CmdTexts(Head(cmds)) \o TextsOf(Tail(cmds))

\* the commands of the item whose list marker is ui[m]: those up to the
\* next list marker
ItemMarkers == {m \in 1..Len(ui) : ui[m].cmd = "marker"}
ItemEnd(m) ==
    IF \E n \in ItemMarkers : n > m
    THEN (CHOOSE n \in ItemMarkers :
              n > m /\ \A o \in ItemMarkers : o > m => n <= o) - 1
    ELSE Len(ui)
ItemTexts(m) == TextsOf(SubSeq(ui, m + 1, ItemEnd(m)))
Checkboxes == {<<"[x] ">>, <<"[ ] ">>}

\* C5: in the final output of every list item that holds a task marker, no
\* text of the item precedes the checkbox.
C5_CheckboxPrecedesItemText ==
    pc = "done" =>
        \A m \in ItemMarkers :
            \A i \in 1..Len(ItemTexts(m)) :
                ItemTexts(m)[i] \in Checkboxes =>
                    \A j \in 1..(i - 1) : ItemTexts(m)[j] \in Checkboxes

\* ---------------------------------------------------------------------
\* C6: a paragraph of Text events and Emphasis / Strong / Strikethrough
\* spans

SpanTags == {"Emphasis", "Strong", "Strikethrough"}

\* the events of a body are Text events and span opens and closes only
StyledTextOnly(body) ==
    \A i \in 1..Len(body) :
        \/ body[i].kind = "Text"
        \/ body[i].kind \in {"Start", "End"} /\ body[i].tag \in SpanTags

\* one fragment per Text event of a body, in the style that was on top of
\* the stack when the text arrived
RECURSIVE Fragments(_)
Fragments(body) ==
    IF body = <<>> THEN <<>>
    ELSE (IF Head(body).kind = "Text"
          THEN <<Section(Head(body).text, Head(body).fmt)>> ELSE <<>>)
         \o Fragments(Tail(body))

\* C6: when a paragraph that holds only Text events and Emphasis, Strong
\* and Strikethrough spans closes, nothing has been emitted since it
\* opened, and the close emits exactly one text run, with one fragment per
\* Text event in the style on top of the stack at its arrival, followed by
\* the paragraph spacing.
C6_ParagraphIsOneRun ==
    [][(/\ last'.kind = "EndParagraph"
        /\ open # <<>>
        /\ Top(open).tag = "Paragraph"
        /\ StyledTextOnly(Top(open).body))
       => /\ \A i \in 1..Len(Top(open).body) :
                 Top(open).body[i].uiLen = Len(ui)
          /\ ui' = ui \o <<Label(Fragments(Top(open).body)), Space(40)>>]_vars

\* a paragraph "a" *b* ~~a~~ has been closed: one run of three fragments,
\* plain, italic, struck through, then the spacing
C6_Witness ==
    /\ last.kind = "EndParagraph"
    /\ Len(ui) >= 2
    /\ ui[Len(ui)] = Space(40)
    /\ ui[Len(ui) - 1].cmd = "label"
    /\ Len(ui[Len(ui) - 1].job) = 3
    /\ ui[Len(ui) - 1].job[1].fmt = base_format
    /\ ui[Len(ui) - 1].job[2].fmt.italics
    /\ ui[Len(ui) - 1].job[3].fmt.strikethrough # StrokeNONE

\* ---------------------------------------------------------------------
\* C7: the style a Strong open pushes

\* C7: after a Strong open the style on top of the stack differs from the
\* style below it, the one that was on top before the open.
C7_StrongPushesDifferentStyle ==
    (last.kind = "StartStrong" /\ pc = "run")
    => /\ Len(inline_style_stack) >= 2
       /\ inline_style_stack[Len(inline_style_stack)]
              # inline_style_stack[Len(inline_style_stack) - 1]

\* ---------------------------------------------------------------------
\* C8: the column count of the grid

\* the cell counts of the rows of a table body, head row included: a row
\* begins at the open of a TableHead or TableRow, a cell is complete at the
\* close of a TableCell
RECURSIVE RowCellCounts(_, _)
RowCellCounts(body, acc) ==
    IF body = <<>> THEN acc
    ELSE IF Head(body).kind = "Start"
            /\ Head(body).tag \in {"TableHead", "TableRow"}
         THEN RowCellCounts(Tail(body), Append(acc, 0))
    ELSE IF Head(body).kind = "End" /\ Head(body).tag = "TableCell"
            /\ acc # <<>>
         THEN RowCellCounts(Tail(body),
                            [acc EXCEPT ![Len(acc)] = @ + 1])
    ELSE RowCellCounts(Tail(body), acc)

MaxOf(counts) ==
    IF counts = <<>> THEN 0
    ELSE CHOOSE n \in {counts[i] : i \in 1..Len(counts)} :
             \A i \in 1..Len(counts) : counts[i] <= n

\* C8: when a table with at least one cell closes, the grid that is
\* emitted has as many columns as the largest number of cells any of its
\* rows holds, and one row per row of the table.
C8_GridColumnsAreMaxCellCount ==
    [][(/\ last'.kind = "EndTable"
        /\ open # <<>>
        /\ Top(open).tag = "Table"
        /\ MaxOf(RowCellCounts(Top(open).body, <<>>)) > 0)
       => /\ Len(ui') >= 2
          /\ ui'[Len(ui') - 1].cmd = "grid"
          /\ ui'[Len(ui') - 1].num_columns
                 = MaxOf(RowCellCounts(Top(open).body, <<>>))
          /\ Len(ui'[Len(ui') - 1].rows)
                 = Len(RowCellCounts(Top(open).body, <<>>))
          /\ \A r \in 1..Len(ui'[Len(ui') - 1].rows) :
                 Len(ui'[Len(ui') - 1].rows[r])
                     = RowCellCounts(Top(open).body, <<>>)[r]]_vars

\* a table whose rows hold 3, 2 and 4 cells has been closed into a grid of
\* 4 columns
C8_Witness ==
    /\ last.kind = "EndTable"
    /\ Len(ui) >= 2
    /\ ui[Len(ui) - 1].cmd = "grid"
    /\ Len(ui[Len(ui) - 1].rows) = 3
    /\ Len(ui[Len(ui) - 1].rows[1]) = 3
    /\ Len(ui[Len(ui) - 1].rows[2]) = 2
    /\ Len(ui[Len(ui) - 1].rows[3]) = 4
    /\ ui[Len(ui) - 1].num_columns = 4

\* ---------------------------------------------------------------------
\* C9: the close of a link

\* the text a link accumulates from the events of its body
RECURSIVE LinkTextOf(_)
LinkTextOf(body) ==
    IF body = <<>> THEN <<>>
    ELSE (IF Head(body).kind = "Text" THEN Head(body).text
          ELSE IF Head(body).kind = "Code"
               THEN <<Backtick>> \o Head(body).text \o <<Backtick>>
          ELSE IF Head(body).kind = "SoftBreak" THEN <<" ">>
          ELSE IF Head(body).kind = "HardBreak" THEN <<"\n">>
          ELSE <<>>)
         \o LinkTextOf(Tail(body))

\* C9: the close of a link pops exactly one inline style, emits exactly
\* one clickable region that carries the URL of the link and the text
\* accumulated since its open (an empty text included), and leaves no
\* pending link and an empty link text buffer.
C9_LinkCloseEmitsOneRegion ==
    [][(/\ last'.kind = "EndLink"
        /\ open # <<>>
        /\ Top(open).tag = "Link")
       => /\ Len(inline_style_stack') = Len(inline_style_stack) - 1
          /\ ui' = Append(ui, LinkCmd(LinkTextOf(Top(open).body),
                                      Top(open).arg[1]))
          /\ current_link_url' = None
          /\ current_link_text' = <<>>]_vars

\* two links have been closed, one with an empty text and one with text
C9_Witness ==
    /\ last.kind = "EndLink"
    /\ \E i \in 1..Len(ui) : ui[i].cmd = "link" /\ ui[i].text = <<>>
    /\ \E i \in 1..Len(ui) : ui[i].cmd = "link" /\ ui[i].text # <<>>

\* ---------------------------------------------------------------------
\* C10: a fenced code block with an unrecognised language token

\* the text a code block accumulates from the events of its body
RECURSIVE CodeTextOf(_)
CodeTextOf(body) ==
    IF body = <<>> THEN <<>>
    ELSE (IF Head(body).kind = "Text" THEN Head(body).text ELSE <<>>)
         \o CodeTextOf(Tail(body))

UnknownToken(kind) ==
    /\ language_of(kind) # None
    /\ find_syntax_by_token(language_of(kind)[1]) = None

\* the kind of a code block that names no language
PlainKind == [fenced |-> TRUE, lang |-> ""]

\* C10: the close of a fenced code block whose language token is not
\* recognised emits what the close of a block with the same content and no
\* language emits: the content highlighted as plain text, then the
\* spacing.
C10_UnknownTokenRendersAsPlain ==
    [][(/\ last'.kind = "EndCodeBlock"
        /\ open # <<>>
        /\ Top(open).tag = "CodeBlock"
        /\ UnknownToken(Top(open).arg[1]))
       => ui' = ui \o <<CodeCmd(code_block_job(
                                   CodeTextOf(Top(open).body),
                                   Some(resolve_syntax(language_of(PlainKind))),
                                   last'.failAt)),
                        Space(60)>>]_vars

\* a block with the token "zz" and two lines of code has been closed
C10_Witness ==
    /\ last.kind = "EndCodeBlock"
    /\ last.language = Some("zz")
    /\ Len(LinesWithEndings(last.code)) = 2
    /\ last.failAt = 0

\* ---------------------------------------------------------------------
\* C11: the shared image cache

\* C11: under any interleaving of passes that ask for images, the image of
\* each URL is loaded at most once, a request for a URL the cache holds
\* does not load it again, and no pass finds an entry that is still being
\* inserted: an entry is in that state only while the pass that inserts it
\* owns the mutex.
C11_ImageLoadedAtMostOnce ==
    /\ [](/\ \A u \in Urls : image_loads[u] <= 1
          /\ \A t \in Passes : img_seen[t] # Some("loading")
          /\ \A u \in Urls :
                 image_cache[u] = "loading"
                 => /\ cache_lock # None
                    /\ img_pc[cache_lock[1]] = "insert"
                    /\ img_url[cache_lock[1]] = Some(u))
    /\ [][\A u \in Urls :
              image_cache[u] = "present" => image_loads'[u] = image_loads[u]]_vars

\* one pass has found in the cache the image another pass loaded, while
\* the other pass waits for the mutex
C11_Witness ==
    \E t, o \in Passes :
        /\ t # o
        /\ img_seen[t] = Some("present")
        /\ img_pc[t] = "draw"
        /\ image_loads[img_url[t][1]] = 1
        /\ img_pc[o] = "lock"
        /\ img_url[o] = img_url[t]

\* ---------------------------------------------------------------------
\* C12: a colorizer failure inside a code block

\* the text of the lines from line k on
RECURSIVE Joined(_, _)
Joined(lines, k) ==
    IF k > Len(lines) THEN <<>> ELSE lines[k] \o Joined(lines, k + 1)

\* the text of a job: the texts of its sections, one after the other
RECURSIVE JobText(_)
JobText(job) ==
    IF job = <<>> THEN <<>> ELSE Head(job).text \o JobText(Tail(job))

\* C12: when the colorizer fails on line k of a code block, the job of the
\* block is the styled spans of the lines before k followed by one
\* unstyled fragment that holds the text of the lines from k on, so the
\* text of the job is the text of the block, each character once.
C12_FailureKeepsRemainderOnly ==
    (last.kind = "EndCodeBlock" /\ last.failAt > 0)
    => LET lines == LinesWithEndings(last.code)
           job == ui[Len(ui) - 1].job
       IN /\ job = HighlightLoop(SubSeq(lines, 1, last.failAt - 1), 1,
                                 resolve_syntax(last.language), 0, <<>>)
                   \o <<Section(Joined(lines, last.failAt), PlainCodeFormat)>>
          /\ JobText(job) = last.code

\* ---------------------------------------------------------------------
\* C13: a pass repeated over the same events

\* any two events of the handlers that leave state behind, rendered twice
InitTwice ==
    InitState({FALSE}, Caps([Any |-> MaxTwiceEvents, Replay |-> 1, Total |-> 0]))
NextTwice ==
    \/ StartParagraph \/ StartHeading \/ StartBlockQuote \/ StartCodeBlock
    \/ StartList \/ StartItem \/ StartTable \/ StartEmphasis \/ StartLink
    \/ StartImage \/ EvText \/ EvSoftBreak
    \/ EndParagraph \/ EndCodeBlock \/ EndList \/ EndInlineStyle \/ EndLink
    \/ Finish \/ Restart
SpecTwice == InitTwice /\ [][NextTwice]_vars

InitCloses == InitState({FALSE}, Caps([Any |-> MaxCloseEvents, Total |-> 0]))
NextCloses ==
    \/ StartTableHead \/ StartBlockQuote \/ StartEmphasis
    \/ EndHeading \/ EndInlineStyle \/ EndLink \/ EndTableCell
    \/ EndBlockQuote \/ EndList \/ EndTable \/ Finish
SpecCloses == InitCloses /\ [][NextCloses]_vars

InlineCloses == {"EndInlineStyle", "EndHeading", "EndLink", "EndTableCell"}
BlockCloses == {"EndBlockQuote", "EndList", "EndTable"}

\* C14: a close of an Emphasis, Strong, Strikethrough, Heading, Link or
\* TableCell processed with an empty inline style stack leaves it empty,
\* a close of a BlockQuote, List or Table processed with an empty block
\* stack leaves it empty, and neither faults.
C14_CloseOnEmptyStackIsNoOp ==
    [][/\ (last'.kind \in InlineCloses /\ inline_style_stack = <<>>)
          => (inline_style_stack' = <<>> /\ pc' = "run")
       /\ (last'.kind \in BlockCloses /\ block_stack = <<>>)
          => (block_stack' = <<>> /\ pc' = "run")]_vars

\* a stream of a TableHead open and a Heading close, which empties the
\* inline stack, and then the close of a header cell
C14_Witness ==
    /\ last.kind = "EndTableCell"
    /\ in_table_header
    /\ events = 3
    /\ used["Total"] = 1
    /\ ui = <<Space(heading_spacing(1, FALSE))>>
    /\ inline_style_stack = <<>>
    /\ pc = "run"

\* ---------------------------------------------------------------------
\* C15: the text run after the close of a table cell

\* C15: after the close of a table cell the last row holds the cell as its
\* newest cell, the cell buffer is empty, and the current text run is
\* empty.
C15_CellCloseResetsTextRun ==
    (last.kind = "EndTableCell" /\ pc = "run")
    => /\ table_rows # <<>>
       /\ table_rows[Len(table_rows)] # <<>>
       /\ current_cell_job = <<>>
       /\ current_job = <<>>

\* ---------------------------------------------------------------------
\* C16: the flush at a block open

BlockOpens ==
    {"StartParagraph", "StartHeading", "StartBlockQuote", "StartCodeBlock",
     "StartList", "StartItem", "StartTable", "StartTableHead",
     "StartTableRow", "StartTableCell"}

\* C16: right after the open of a Paragraph, Heading, BlockQuote,
\* CodeBlock, List, Item, Table, TableHead, TableRow or TableCell no text
\* is left in the current text run.
C16_BlockOpenFlushesTextRun ==
    (last.kind \in BlockOpens /\ pc = "run") => current_job = <<>>

\* ---------------------------------------------------------------------
\* C17: leaf content inside a table cell

\* the cells of a header row, with text, inline code, raw inline markup
\* and footnote references
InitCells ==
    InitState({TRUE}, Caps([Table |-> 1, TableHead |-> 1,
                            TableCell |-> MaxHeadCells,
                            Leaf |-> MaxCellLeaves]))
NextCells ==
    \/ StartTable \/ StartTableHead \/ StartTableCell
    \/ EvText \/ EvCode \/ EvInlineHtml \/ EvFootnoteReference
    \/ EndTableCell \/ EndTableHead \/ EndTable \/ Finish
SpecCells == InitCells /\ [][NextCells]_vars

LeafKinds ==
    {"Text", "Code", "Html", "InlineHtml", "FootnoteReference", "SoftBreak",
     "HardBreak"}

\* what an event has appended to a job
Appended(before, after) ==
    SubSeq(JobText(after), Len(JobText(before)) + 1, Len(JobText(after)))

\* C17: while the top of the block stack is a table, a leaf event that
\* appends content to the current text run appends the same content to
\* the cell buffer.
C17_LeafContentMirroredIntoCell ==
    [][(/\ top_is_table
        /\ last'.kind \in LeafKinds
        /\ current_job' # current_job)
       => Appended(current_cell_job, current_cell_job')
              = Appended(current_job, current_job')]_vars

\* ---------------------------------------------------------------------
\* C18: leaf events inside a link

\* one link in a paragraph, with text, inline code, raw inline markup and
\* soft breaks
InitLinked ==
    InitState({TRUE}, Caps([Paragraph |-> 1, Link |-> 1,
                            Leaf |-> MaxLinkedLeaves]))
NextLinked ==
    \/ StartParagraph \/ StartLink
    \/ EvText \/ EvCode \/ EvInlineHtml \/ EvSoftBreak
    \/ EndLink \/ EndParagraph \/ Finish
SpecLinked == InitLinked /\ [][NextLinked]_vars

\* C18: a leaf event that carries text and arrives between a Link open and
\* its close extends the text buffer of the pending link and leaves the
\* current text run as it was.
C18_LeafInsideLinkIsDiverted ==
    [][(/\ current_link_url # None
        /\ IsOpen("Link")
        /\ last'.kind \in LeafKinds)
       => /\ current_job' = current_job
          /\ current_link_text' # current_link_text]_vars

\* ---------------------------------------------------------------------
\* C19: the spacing after a flush

\* a block quote, a paragraph and a heading, with text and raw markup
\* blocks
InitQuote ==
    InitState({TRUE}, Caps([BlockQuote |-> 1, Paragraph |-> 1, Heading |-> 1,
                            Leaf |-> MaxQuoteLeaves]))
NextQuote ==
    \/ StartBlockQuote \/ StartParagraph \/ StartHeading
    \/ EvText \/ EvHtml
    \/ EndParagraph \/ EndHeading \/ EndBlockQuote \/ Finish
SpecQuote == InitQuote /\ [][NextQuote]_vars

\* the spacing the policy puts after a flushed text run
PolicySpacing ==
    IF block_stack = <<>> \/ Top(block_stack).kind \in {"List", "BlockQuote"}
    THEN <<Space(40)>> ELSE <<>>

\* C19: a flush that emits the text run is followed by the trailing
\* spacing when it is made for a paragraph open with the block stack empty
\* or with a List or BlockQuote on top, and by no spacing of its own when
\* it is made for a heading close or a block quote close, whose own
\* spacing comes next.
C19_FlushSpacingPolicy ==
    [][(current_job # <<>>)
       => /\ (last'.kind = "StartParagraph")
             => ui' = ui \o <<Label(current_job)>> \o PolicySpacing
          /\ (last'.kind = "EndHeading")
             => ui' = ui \o <<Label(current_job),
                               Space(heading_spacing(last'.level, FALSE))>>
          /\ (last'.kind = "EndBlockQuote")
             => ui' = ui \o <<Label(current_job), Space(60)>>]_vars

\* ---------------------------------------------------------------------
\* C20: the style an Emphasis open pushes

\* C20: after an Emphasis open the style on top of the stack is the style
\* below it with the italic flag negated and every other attribute the
\* same.
C20_EmphasisTogglesItalics ==
    (last.kind = "StartEmphasis" /\ pc = "run")
    => /\ Len(inline_style_stack) >= 2
       /\ inline_style_stack[Len(inline_style_stack)]
              = [inline_style_stack[Len(inline_style_stack) - 1]
                    EXCEPT !.italics = ~@]


\* a list none of whose items holds a list
NoNestedList(l) ==
    \A i \in DOMAIN l.body :
        ~(l.body[i].kind = "Start" /\ l.body[i].tag = "List")

\* the commands issued since the event logged as e arrived
IssuedSince(e) == SubSeq(ui, e.uiLen + 1, Len(ui))
MarkersOf(cmds) == SelectSeq(cmds, LAMBDA c : c.cmd = "marker")

\* the bullet U+2022
BulletGlyph == <<"U+2022">>

\* C21: in a list without nested lists every Item open issues exactly one
\* marker and advances the counter once: the k-th item of an ordered list
\* starting at n is marked "(n+k-1). " and leaves the counter at n+k; every
\* item of an unordered list is marked with the bullet glyph and a space and
\* leaves the counter unordered.
C21_OneMarkerPerItem ==
    (/\ last.kind = "StartItem"
     /\ pc = "run"
     /\ Len(open) >= 2
     /\ ItemList.tag = "List"
     /\ NoNestedList(ItemList))
    => LET markers == MarkersOf(IssuedSince(Top(ItemList.body)))
       IN  /\ Len(markers) = 1
           /\ IF ItemList.arg # None
              THEN /\ markers[1].text =
                         <<ToString(ItemList.arg[1] + ItemList.k - 1), ". ">>
                   /\ list_item_number =
                         Some(ItemList.arg[1] + ItemList.k)
              ELSE /\ markers[1].text = BulletGlyph \o <<" ">>
                   /\ list_item_number = None


\* code blocks, paragraphs, text and breaks in any order
InitSession ==
    InitState({FALSE}, Caps([Any |-> MaxSessionEvents, Total |-> 0]))
NextSession ==
    \/ StartParagraph \/ StartCodeBlock \/ EvText \/ EvSoftBreak
    \/ EvHardBreak \/ EndCodeBlock \/ Finish
SpecSession == InitSession /\ [][NextSession]_vars

\* the commands an event adds to those issued before it
IssuedByStep == SubSeq(ui', Len(ui) + 1, Len(ui'))
CodeBlocksOf(cmds) == SelectSeq(cmds, LAMBDA c : c.cmd = "code_block")
EndsWith(t, tail) ==
    /\ Len(t) >= Len(tail)
    /\ SubSeq(t, Len(t) - Len(tail) + 1, Len(t)) = tail
\* what a Text, SoftBreak or HardBreak event adds to the code of a code block
SessionText(e) == IF e.kind = "Text" THEN e.text ELSE <<"\n">>

\* C22: the highlighter is set exactly while a CodeBlock is open.  The open
\* clears the accumulated code and captures the language token (none for an
\* empty token); while the highlighter is set, Text, SoftBreak and HardBreak
\* only append to the accumulated code, and neither the current job nor the
\* commands change; the close issues the accumulated code as one code block
\* and clears the code, the language and the highlighter; text after the
\* close is appended to the current job again.
C22_HighlighterSpansCodeBlock ==
    /\ [](wf => (highlighter # None <=> IsOpen("CodeBlock")))
    /\ [][/\ last'.kind = "StartCodeBlock"
             => /\ highlighter' # None
                /\ code_block_content' = <<>>
                /\ code_language' =
                      IF last'.block.fenced /\ last'.block.lang # ""
                      THEN Some(last'.block.lang) ELSE None
          /\ (highlighter # None
              /\ last'.kind \in {"Text", "SoftBreak", "HardBreak"})
             => /\ code_block_content' =
                      code_block_content \o SessionText(last')
                /\ current_job' = current_job
                /\ ui' = ui
                /\ highlighter' = highlighter
          /\ last'.kind = "EndCodeBlock"
             => /\ Len(CodeBlocksOf(IssuedByStep)) = 1
                /\ EndsWith(JobText(CodeBlocksOf(IssuedByStep)[1].job),
                            code_block_content)
                /\ last'.failAt = 0
                   => JobText(CodeBlocksOf(IssuedByStep)[1].job)
                         = code_block_content
                /\ code_block_content' = <<>>
                /\ code_language' = None
                /\ highlighter' = None
          /\ (highlighter = None /\ current_link_url = None
              /\ last'.kind = "Text")
             => /\ JobText(current_job') = JobText(current_job) \o last'.text
                /\ code_block_content' = code_block_content
         ]_vars

\* a code block that held only a break has been issued, and the text after
\* its close is in the current job
C22_Witness ==
    /\ last.kind = "Text"
    /\ highlighter = None
    /\ JobText(current_job) = last.text
    /\ \E i \in DOMAIN ui :
          ui[i].cmd = "code_block" /\ JobText(ui[i].job) = <<"\n">>


\* every construct that pushes a style, with the paragraphs, rows, body cells
\* and text that push none
InitStyles ==
    InitState({TRUE},
              Caps([Paragraph |-> 1, Heading |-> 1, Span |-> 2, Link |-> 1,
                    Leaf |-> 1, Table |-> 1, TableHead |-> 1, TableRow |-> 1,
                    TableCell |-> 2, Total |-> MaxStyleEvents]))
NextStyles ==
    \/ StartParagraph \/ StartHeading \/ StartTable \/ StartTableHead
    \/ StartTableRow \/ StartTableCell \/ StartEmphasis \/ StartStrong
    \/ StartStrikethrough \/ StartLink \/ EvText
    \/ EndParagraph \/ EndHeading \/ EndTable \/ EndTableHead \/ EndTableRow
    \/ EndTableCell \/ EndInlineStyle \/ EndLink \/ Finish
SpecStyles == InitStyles /\ [][NextStyles]_vars

\* the opens that carry a style; a TableCell carries one in the header row
StyleOpens == {"StartEmphasis", "StartStrong", "StartStrikethrough",
               "StartHeading", "StartLink"}
StyleCloses == {"EndInlineStyle", "EndHeading", "EndLink"}
\* the cell just opened lies in the header row
OpenedHeaderCell ==
    /\ last'.kind = "StartTableCell"
    /\ Ctx = "TableHead"
\* the cell just closed lay in the header row
ClosedHeaderCell ==
    /\ last'.kind = "EndTableCell"
    /\ Len(open) >= 2
    /\ open[Len(open) - 1].tag = "TableHead"

InitGrids ==
    InitState({TRUE},
              Caps([Table |-> MaxGridTables, TableHead |-> 2, TableRow |-> 1,
                    TableCell |-> 2, Leaf |-> 1, Total |-> MaxGridEvents]))
NextGrids ==
    \/ StartTable \/ StartTableHead \/ StartTableRow \/ StartTableCell
    \/ EvText \/ EndTableCell \/ EndTableRow \/ EndTableHead \/ EndTable
    \/ Finish
SpecGrids == InitGrids /\ [][NextGrids]_vars

GridsOf(cmds) == SelectSeq(cmds, LAMBDA c : c.cmd = "grid")
\* the cell counts of the rows of the table that is being closed
ClosingRows == RowCellCounts(Top(open).body, <<>>)

\* C24: a Table open empties the row accumulator and a Table close leaves it
\* empty; the close of a table without rows, or whose rows all are without
\* cells, issues no grid; the grid any other close issues has the rows of
\* the table being closed and no others.
C24_TableRowsStayInTheirTable ==
    [][/\ (wf' /\ last'.kind = "StartTable") => table_rows' = <<>>
       /\ (wf' /\ last'.kind = "EndTable")
          => /\ table_rows' = <<>>
             /\ IF MaxOf(ClosingRows) = 0
                THEN GridsOf(IssuedByStep) = <<>>
                ELSE /\ Len(GridsOf(IssuedByStep)) = 1
                     /\ Len(GridsOf(IssuedByStep)[1].rows) = Len(ClosingRows)
                     /\ \A r \in 1..Len(ClosingRows) :
                            Len(GridsOf(IssuedByStep)[1].rows[r])
                                = ClosingRows[r]
      ]_vars

\* a second table has been closed into a grid of its own single row, after
\* a first table was closed into a grid
C24_Witness ==
    /\ last.kind = "EndTable"
    /\ table_rows = <<>>
    /\ Len(GridsOf(ui)) = 2
    /\ Len(GridsOf(ui)[1].rows) = 1
    /\ Len(GridsOf(ui)[2].rows) = 1

\* a table with a row and no cell has been closed without a grid
C24_WitnessEmptyRow ==
    /\ last.kind = "EndTable"
    /\ used["TableHead"] = 1 /\ used["TableCell"] = 0
    /\ GridsOf(ui) = <<>>


\* the List contexts among the contexts of a block stack
RECURSIVE ListsOn(_)
ListsOn(stack) ==
    IF stack = <<>> THEN 0
    ELSE (IF Head(stack).kind = "List" THEN 1 ELSE 0) + ListsOn(Tail(stack))

\* C25: the marker of an Item is indented by (d - 1) indent widths, d being
\* the number of List contexts on the block stack when the Item opens
\* (BlockQuote and Table contexts do not count), and by none when d is 0.
C25_ItemIndentIsListDepthLessOne ==
    (last.kind = "StartItem" /\ pc = "run")
    => /\ Len(ui) >= 2
       /\ ui[Len(ui) - 1].cmd = "marker"
       /\ ui[Len(ui) - 1].indent >= 0
       /\ ui[Len(ui) - 1].indent =
             IF ListsOn(block_stack) = 0 THEN 0
             ELSE (ListsOn(block_stack) - 1) * indent_width

\* an Item opened with two List contexts on the stack is indented by one
\* width
C25_Witness ==
    /\ last.kind = "StartItem"
    /\ ListsOn(block_stack) = 2
    /\ ui[Len(ui) - 1].cmd = "marker"
    /\ ui[Len(ui) - 1].indent = indent_width

\* an Item opened in a BlockQuote, outside any List, is not indented
C25_WitnessNoList ==
    /\ last.kind = "StartItem"
    /\ block_stack # <<>>
    /\ ListsOn(block_stack) = 0
    /\ ui[Len(ui) - 1].indent = 0


\* the events that flush the current job and those that append to it, in
\* any order
InitFlush ==
    InitState({FALSE}, Caps([Any |-> MaxFlushEvents, Total |-> 0]))
NextFlush ==
    \/ StartParagraph \/ StartHeading \/ StartBlockQuote \/ StartCodeBlock
    \/ StartList \/ StartItem \/ StartTable \/ StartLink \/ StartImage
    \/ StartFootnoteDefinition
    \/ EndParagraph \/ EndHeading \/ EndBlockQuote \/ EndList \/ EndItem
    \/ EndTable \/ EndFootnoteDefinition \/ EvRule
    \/ EvText \/ EvCode \/ EvHtml \/ EvSoftBreak \/ EvTaskListMarker
    \/ Finish
SpecFlush == InitFlush /\ [][NextFlush]_vars

\* the events whose handlers flush the current job
FlushKinds ==
    {"StartParagraph", "StartHeading", "StartBlockQuote", "StartCodeBlock",
     "StartList", "StartItem", "StartTable", "StartLink", "StartImage",
     "StartFootnoteDefinition", "EndParagraph", "EndHeading",
     "EndBlockQuote", "EndList", "EndItem", "EndTable",
     "EndFootnoteDefinition", "Rule", "Finish"}
LabelsOf(cmds) == SelectSeq(cmds, LAMBDA c : c.cmd = "label")
\* the job after holds the sections of the job before, and maybe more
Extends(after, before) ==
    /\ Len(after) >= Len(before)
    /\ \/ SubSeq(after, 1, Len(before)) = before
       \/ SubSeq(after, Len(after) - Len(before) + 1, Len(after)) = before

\* C26: an event that flushes issues a label exactly when the current job
\* is not empty, the label holds that job, and the job is empty afterwards;
\* an event that does not flush issues no label and keeps every section of
\* the job.  So no label is empty, no section is issued twice, and the job
\* is empty at the end of the stream.
C26_FlushIssuesJobOnce ==
    /\ [](\A i \in DOMAIN ui : ui[i].cmd = "label" => ui[i].job # <<>>)
    /\ [](pc = "done" => current_job = <<>>)
    /\ [][IF last'.kind \in FlushKinds
          THEN /\ current_job' = <<>>
               /\ LabelsOf(IssuedByStep) =
                     IF current_job # <<>> THEN <<Label(current_job)>>
                     ELSE <<>>
          ELSE /\ LabelsOf(IssuedByStep) = <<>>
               /\ Extends(current_job', current_job)
         ]_vars

\* the three sections of an inline code have been issued as one label by the
\* flush of a block open, and the job is empty
C26_Witness ==
    /\ last.kind \in {"StartParagraph", "StartList", "StartTable"}
    /\ current_job = <<>>
    /\ Len(ui) >= 2
    /\ \E i \in DOMAIN ui : ui[i].cmd = "label" /\ Len(ui[i].job) = 3


\* C27: from the open of a Table to its close no command is issued but
\* spacing and, at the close, the grid: the content of the cells is issued
\* in the grid only, never as a label or a link of its own.
C27_TableContentOnlyInGrid ==
    [][(wf' /\ IsOpen("Table"))
       => \A i \in DOMAIN IssuedByStep :
             /\ IssuedByStep[i].cmd \in {"add_space", "grid"}
             /\ IssuedByStep[i].cmd = "grid" => last'.kind = "EndTable"
      ]_vars


\* text in paragraphs, links, images, code blocks and the cells of a table;
\* the events of the stream are recorded
InitKept ==
    InitState({TRUE},
              Caps([Paragraph |-> 1, Link |-> 1, Image |-> 1, CodeBlock |-> 1,
                    Table |-> 1, TableHead |-> 1, TableCell |-> 1,
                    Leaf |-> MaxKeptLeaves, Total |-> MaxKeptEvents,
                    Replay |-> 1]))
NextKept ==
    \/ StartParagraph \/ StartLink \/ StartImage \/ StartCodeBlock
    \/ StartTable \/ StartTableHead \/ StartTableCell \/ EvText
    \/ EndParagraph \/ EndLink \/ EndImage \/ EndCodeBlock \/ EndTable
    \/ EndTableHead \/ EndTableCell \/ Finish
SpecKept == InitKept /\ [][NextKept]_vars

\* the text of the cells of the rows of a grid
RECURSIVE CellsText(_)
CellsText(cells) ==
    IF cells = <<>> THEN <<>>
    ELSE JobText(Head(cells)) \o CellsText(Tail(cells))
RECURSIVE RowsText(_)
RowsText(rows) ==
    IF rows = <<>> THEN <<>>
    ELSE CellsText(Head(rows)) \o RowsText(Tail(rows))
\* the text a command shows: of a label, a link, a code block or a grid
ShownText(c) ==
    CASE c.cmd = "label" -> JobText(c.job)
      [] c.cmd = "link" -> c.text
      [] c.cmd = "code_block" -> JobText(c.job)
      [] c.cmd = "grid" -> RowsText(c.rows)
      [] OTHER -> <<>>
RECURSIVE AllShownText(_)
AllShownText(cmds) ==
    IF cmds = <<>> THEN <<>>
    ELSE ShownText(Head(cmds)) \o AllShownText(Tail(cmds))
\* the text of the Text events of the recorded stream
RECURSIVE StreamText(_)
StreamText(evs) ==
    IF evs = <<>> THEN <<>>
    ELSE (IF Head(evs).kind = "Text" THEN Head(evs).text ELSE <<>>)
         \o StreamText(Tail(evs))
Occurrences(x, t) == Cardinality({i \in DOMAIN t : t[i] = x})

InitOrder ==
    InitState({TRUE},
              Caps([Paragraph |-> 1, Link |-> MaxOrderLinks,
                    Leaf |-> MaxOrderLeaves, Replay |-> 1]))
NextOrder ==
    \/ StartParagraph \/ StartLink \/ EvText \/ EndLink \/ EndParagraph
    \/ Finish
SpecOrder == InitOrder /\ [][NextOrder]_vars

\* C29: in a paragraph of Text events and links that are not nested, the
\* text is shown in the order of the stream: at every moment the text of the
\* labels and links issued so far, followed by the text still held for the
\* next label or link, is the text of the Text events so far, in their
\* order; so the text before a link is in a label issued before the link,
\* and the text after its close is issued after it.
C29_TextShownInStreamOrder ==
    /\ wf => AllShownText(ui) \o JobText(current_job) \o current_link_text
                = StreamText(trace)
    /\ (wf /\ last.kind = "EndLink")
       => /\ ui[Len(ui)].cmd = "link"
          /\ current_job = <<>>
    /\ (wf /\ pc = "done") => AllShownText(ui) = StreamText(trace)

\* a paragraph with text before, in and after a link has ended: a label, the
\* link and a second label were issued in this order
C29_Witness ==
    /\ pc = "done" /\ wf
    /\ StreamText(trace) = <<"a", "b", "a">>
    /\ \E i, j, k \in DOMAIN ui :
          /\ i < j /\ j < k
          /\ ui[i].cmd = "label" /\ JobText(ui[i].job) = <<"a">>
          /\ ui[j].cmd = "link" /\ ui[j].text = <<"b">>
          /\ ui[k].cmd = "label" /\ JobText(ui[k].job) = <<"a">>


\* style spans among lists, items, tables, code blocks, links and text, in
\* streams that obey the grammar and in short streams that need not
InitFrame ==
    InitState(BOOLEAN,
              Caps([Paragraph |-> 1, List |-> 1, Item |-> 1, Table |-> 1,
                    TableHead |-> 1, TableCell |-> 1, CodeBlock |-> 1,
                    Link |-> 1, Span |-> 2, Leaf |-> 1,
                    Total |-> MaxFrameEvents, Any |-> MaxFrameAnyEvents]))
NextFrame ==
    \/ StartParagraph \/ StartList \/ StartItem \/ StartTable
    \/ StartTableHead \/ StartTableCell \/ StartCodeBlock \/ StartLink
    \/ StartEmphasis \/ StartStrong \/ StartStrikethrough \/ EvText
    \/ EndInlineStyle \/ EndLink \/ EndTableCell \/ EndItem \/ Finish
SpecFrame == InitFrame /\ [][NextFrame]_vars

SpanEvents ==
    {"StartEmphasis", "StartStrong", "StartStrikethrough", "EndInlineStyle"}

\* C30: the open and the close of an Emphasis, Strong or Strikethrough that
\* the handler completes leave the block stack, the current job, the rows
\* and the cell of the table, the link URL and text, the code and its
\* language and highlighter, the list counter and the commands as they were.
C30_SpansChangeOnlyStyleStack ==
    [][(last'.kind \in SpanEvents /\ pc' = "run")
       => /\ block_stack' = block_stack
          /\ current_job' = current_job
          /\ table_rows' = table_rows
          /\ current_cell_job' = current_cell_job
          /\ in_table_header' = in_table_header
          /\ current_link_url' = current_link_url
          /\ current_link_text' = current_link_text
          /\ code_block_content' = code_block_content
          /\ code_language' = code_language
          /\ highlighter' = highlighter
          /\ list_item_number' = list_item_number
          /\ ui' = ui
      ]_vars

\* a style span has been closed in an item of an ordered list that holds
\* text: the job, the list counter, the block stack and the commands are in
\* place
C30_Witness ==
    /\ last.kind = "EndInlineStyle"
    /\ wf
    /\ current_job # <<>>
    /\ list_item_number # None
    /\ block_stack # <<>>
    /\ ui # <<>>
    /\ inline_style_stack = <<base_format>>

\* a style span has been opened while a code block collects text
C30_WitnessInCode ==
    /\ last.kind \in {"StartEmphasis", "StartStrong", "StartStrikethrough"}
    /\ code_block_content # <<>>
    /\ highlighter # None


\* images with their descriptions, in paragraphs, list items, links and
\* style spans
InitAlt ==
    InitState({TRUE},
              Caps([Paragraph |-> 1, List |-> 1, Item |-> 1, Link |-> 1,
                    Span |-> 1, Image |-> MaxAltImages,
                    Leaf |-> MaxAltLeaves, Total |-> MaxAltEvents]))
NextAlt ==
    \/ StartParagraph \/ StartList \/ StartItem \/ StartLink
    \/ StartEmphasis \/ StartImage \/ EvText
    \/ EndImage \/ EndInlineStyle \/ EndLink \/ EndItem \/ EndList
    \/ EndParagraph \/ Finish
SpecAlt == InitAlt /\ [][NextAlt]_vars

ImagesOf(cmds) == SelectSeq(cmds, LAMBDA c : c.cmd = "image")

\* C31: an Image open issues the current job, if there is one, as a label
\* and then the image, and leaves the job empty; the Image open and close
\* leave the inline style stack, the block stack and the link URL and text
\* as they were, and the close issues nothing; a Text event inside an image
\* is handled as one outside: its text is appended to the link text when a
\* link is open and to the current job otherwise, so it is issued by a
\* later flush, after the image.
C31_ImageKeepsNoState ==
    [][/\ (wf' /\ last'.kind = "StartImage")
          => /\ Len(ImagesOf(IssuedByStep)) = 1
             /\ ImagesOf(IssuedByStep)[1].url = last'.url
             /\ LabelsOf(IssuedByStep) =
                   IF current_job # <<>> THEN <<Label(current_job)>>
                   ELSE <<>>
             /\ current_job # <<>> => IssuedByStep[1].cmd = "label"
             /\ current_job' = <<>>
             /\ inline_style_stack' = inline_style_stack
             /\ block_stack' = block_stack
             /\ current_link_url' = current_link_url
             /\ current_link_text' = current_link_text
       /\ (wf' /\ last'.kind = "EndImage")
          => /\ inline_style_stack' = inline_style_stack
             /\ block_stack' = block_stack
             /\ current_link_url' = current_link_url
             /\ current_link_text' = current_link_text
             /\ current_job' = current_job
             /\ ui' = ui
       /\ (wf' /\ last'.kind = "Text")
          => /\ ui' = ui
             /\ IF current_link_url # None
                THEN /\ current_link_text' = current_link_text \o last'.text
                     /\ current_job' = current_job
                ELSE /\ current_job' =
                           Append(current_job,
                                  Section(last'.text, current_format))
                     /\ current_link_text' = current_link_text
      ]_vars

\* a stream has ended in which text came before an image and text came as
\* its description: a label, the image and a second label were issued in
\* this order
C31_Witness ==
    /\ pc = "done" /\ wf
    /\ used["Image"] = 1 /\ used["Link"] = 0
    /\ \E i, j, k \in DOMAIN ui :
          /\ i < j /\ j < k
          /\ ui[i].cmd = "label"
          /\ ui[j].cmd = "image"
          /\ ui[k].cmd = "label"

\* a Text event has come inside an image inside a link: its text is in the
\* link text
C31_WitnessInLink ==
    /\ last.kind = "Text"
    /\ Ctx = "Image" /\ IsOpen("Link")
    /\ current_link_text = last.text
    /\ current_job = <<>>


\* the application: files are opened and reloaded, the theme is toggled and
\* the view is scrolled
InitApp == InitState({TRUE}, Caps([Leaf |-> 0]))
NextApp ==
    \/ OpenFile \/ reload_file \/ ToggleDarkMode \/ StoreScrollOffset
SpecApp == InitApp /\ [][NextApp]_vars

ReadFailed(e) == ~e.meta.ok \/ ~e.read.ok
FailureTexts == {"Failed to read file: ", "Failed to access file metadata: "}

\* C32: reload_file called while a file path is set leaves file_path,
\* scroll_offset and dark_mode as they were, whether the file can be read or
\* not, and when it cannot be read the status message reports the failure.
C32_ReloadKeepsPathScrollAndTheme ==
    [][(last'.kind = "reload_file" /\ app.file_path # None)
       => /\ app'.file_path = app.file_path
          /\ app'.scroll_offset = app.scroll_offset
          /\ app'.dark_mode = app.dark_mode
          /\ ReadFailed(last')
             => /\ app'.status_message # None
                /\ app'.status_message[1][1][1] \in FailureTexts
      ]_vars

============================================================================
